---- MODULE Spec2Model ----
(***************************************************************************)
(* A model of the watchtower ("Summoner") host:                            *)
(*   - OperationHistory (src/src/history.rs): the undo/redo tree;          *)
(*   - the command bridge between the MCP tool server                      *)
(*     (src/src/mcp_server.rs) and the dispatcher's ui() tick              *)
(*     (src/src/main.rs);                                                  *)
(*   - the agent process session: the worker thread, the child process    *)
(*     and its stdout reader threads (src/src/cli.rs), and the            *)
(*     dispatcher's read-out of their events (src/src/main.rs);           *)
(*   - the stream decoder parse_stream_json_line (src/src/cli.rs);         *)
(*   - the frontend's list of the tool calls of the message being          *)
(*     streamed (src/site/src/lib.rs);                                     *)
(*   - the scene and game tools' handlers and the play commands            *)
(*     (src/src/main.rs, src/src/scene.rs);                                *)
(*   - one whole ui() tick over its four inputs, with the self-tests       *)
(*     (src/src/main.rs).                                                  *)
(* Each subsystem has its own specification; the variables of the other    *)
(* subsystems stay at their initial values.                                *)
(***************************************************************************)
EXTENDS Integers, Sequences, FiniteSets, TLC

VARIABLES
    \* ---- OperationHistory (history.rs:52-56) ----
    nodes,          \* Vec<HistoryNode>: node i of the code is nodes[i + 1]
    current,        \* Option<usize>: the cursor, None when unset
    redo_stack,     \* Vec<usize>: top of the stack is the last element
    \* ---- observers of the history's calls ----
    hlast,          \* the last call: its name, argument, result, pre-state
    run,            \* the pushes and undos made since the history was empty
    \* ---- the command bridge (mcp_server.rs:48-49, main.rs:69-70) ----
    command_queue,  \* SummonerCommandQueue: Arc<RwLock<Vec<McpCommand>>>
    response_queue, \* SummonerResponseQueue: Arc<RwLock<Option<McpResponse>>>
    task,           \* per tool call task: where it is in send_command_and_wait
    ui,             \* the dispatcher's ui() tick: its position and its locals
    messages,       \* the webview's queue of UserInputResponse commands
    pending_input_request, \* the frontend's pending_input_request signal
    \* ---- observers of the bridge ----
    enqueued,       \* ids of the commands pushed on the queue, in order
    drained,        \* ids of the commands the drains returned, in order
    results,        \* per command: what its send_command_and_wait returned
    counts,         \* per command: handler stores and returns of its call
    lost,           \* the responses overwritten before any poll took them
    first_hit,      \* whether a first poll has returned a response stored
                    \* after its call's enqueue
    \* ---- the agent process session (cli.rs:92-215, main.rs:36-38) ----
    cli_cmd_rx,     \* mpsc channel of CliCommand, dispatcher to worker
    cli_event_rx,   \* mpsc channel of CliEvent, worker and readers to dispatcher
    worker,         \* the worker thread: its position and its locals
    children,       \* per launched process: its status and its stdout pipe
    reader,         \* per launched process: its stdout reader thread
    \* ---- observers of the process session ----
    cli_ui,         \* the commands the dispatcher sent, the events it handled
    retired,        \* the processes killed and waited for before a command
                    \* the worker has since accepted
    completed,      \* the processes whose Complete event has been sent
    \* ---- the stream decoder (cli.rs:164-191, 217-319) ----
    decoder,        \* one stdout reader fed a stream of lines: its carried
                    \* state, the lines it read and the events it decoded
    \* ---- the frontend (site/src/lib.rs:85-214, site/src/state.rs) ----
    frontend,       \* AppState.active_tools and the number of the decoder's
                    \* events that have reached the frontend
    \* ---- the scene and the game (scene.rs:9-22, main.rs:63-76) ----
    scene,          \* SceneState and the engine's game_state map, with
                    \* what the observers note of the last tool command
    \* ---- one dispatcher and its inputs (main.rs:30-76, 118-262) ----
    tick            \* the dispatcher's position in ui(), its four inputs,
                    \* the fields its handlers write and what it sent

hvars == <<nodes, current, redo_stack, hlast, run>>

bvars == <<command_queue, response_queue, task, ui, messages,
           pending_input_request, enqueued, drained, results, counts,
           lost, first_hit>>

cvars == <<cli_cmd_rx, cli_event_rx, worker, children, reader, cli_ui,
           retired, completed>>

dvars == <<decoder>>

fvars == <<frontend>>

svars == <<scene>>

tvars == <<tick>>

vars == <<hvars, bvars, cvars, dvars, fvars, svars, tvars>>

\* What a step of one subsystem leaves alone.
NotHistory == <<bvars, cvars, dvars, fvars, svars, tvars>>

NotBridge == <<hvars, cvars, dvars, fvars, svars, tvars>>

NotCli == <<hvars, bvars, dvars, fvars, svars, tvars>>

NotDecoder == <<hvars, bvars, cvars, fvars, svars, tvars>>

NotFrontend == <<hvars, bvars, cvars, dvars, svars, tvars>>

NotTick == <<hvars, bvars, cvars, dvars, fvars, svars>>

(***************************************************************************)
(* Bounds of the model.                                                    *)
(***************************************************************************)
MaxNodes == 4

\* Tool calls made in one behaviour.
MaxCommands == 2

\* Tool call tasks running at once in the specification of the bridge.
NumProducers == 2

\* Rounds of the polling loop in the specification of the bridge, which
\* cuts the loop short; the specification of the timeout runs all of them.
PollBudget == 2

\* Tool calls made in one behaviour of the specification of the timeout,
\* where every call may run all max_attempts rounds.
MaxTimeoutCalls == 1

\* Commands the dispatcher sends to the worker in one behaviour; no more
\* processes than that are launched.
MaxCliCommands == 2

\* Lines the launched processes write to their stdout in one behaviour.
MaxLines == 2

\* Lines fed to the decoder in the specification of the decoder.
MaxDecoderLines == 3

\* Lines of the stream in the specification of the frontend's tool calls.
MaxToolLines == 4

\* Tool commands handled in one behaviour of the specification of the game
\* tools.
MaxGameCommands == 3

\* Items that arrive at the dispatcher's inputs in one behaviour of the
\* specification of the tick.
MaxTickItems == 3

(***************************************************************************)
(* OperationHistory                                                        *)
(***************************************************************************)

\* Option::None for an Option<usize> (indices are 0-based, as in the code).
None == -1

\* Option::None for an Option<&Operation>.
NoOperation == "None"

\* The operations recorded (two of the enum's variants, payloads left out).
Operation == {"AddEntity", "SetGameState"}

\* HistoryNode without its timestamp.
HistoryNode(operation, parent) ==
    [operation |-> operation, parent |-> parent, children |-> <<>>]

\* OperationHistory::default().
DefaultHistory == [nodes |-> <<>>, current |-> None, redo_stack |-> <<>>]

\* The history the state holds.
History == [nodes |-> nodes, current |-> current, redo_stack |-> redo_stack]

\* self.nodes[index] of the code.
NodeAt(h, index) == h.nodes[index + 1]

\* A push that forgets self.redo_stack.clear().
push_keeps_redo_stack(h, operation) ==
    LET parent == h.current
        index == Len(h.nodes)
        pushed == Append(h.nodes, HistoryNode(operation, parent))
        linked == IF parent # None
                  THEN [pushed EXCEPT ![parent + 1].children = Append(@, index)]
                  ELSE pushed
    IN [nodes |-> linked, current |-> index, redo_stack |-> h.redo_stack]

\* A push that takes the last allocated node, not the cursor, as the parent.
push_under_last_node(h, operation) ==
    LET index == Len(h.nodes)
        parent == IF index = 0 THEN None ELSE index - 1
        pushed == Append(h.nodes, HistoryNode(operation, parent))
        linked == IF parent # None
                  THEN [pushed EXCEPT ![parent + 1].children = Append(@, index)]
                  ELSE pushed
    IN [nodes |-> linked, current |-> index, redo_stack |-> <<>>]

\* A push that does not add the node to its parent's children.
push_without_link(h, operation) ==
    [nodes |-> Append(h.nodes, HistoryNode(operation, h.current)),
     current |-> Len(h.nodes),
     redo_stack |-> <<>>]

\* A push that drops only the top of the redo stack.
push_pops_redo_stack(h, operation) ==
    LET parent == h.current
        index == Len(h.nodes)
        pushed == Append(h.nodes, HistoryNode(operation, parent))
        linked == IF parent # None
                  THEN [pushed EXCEPT ![parent + 1].children = Append(@, index)]
                  ELSE pushed
    IN [nodes |-> linked, current |-> index,
        redo_stack |-> SubSeq(h.redo_stack, 1, Len(h.redo_stack) - 1)]

\* OperationHistory::push: the history after push(operation).
push(h, operation) ==
    LET parent == h.current
        index == Len(h.nodes)
        pushed == Append(h.nodes, HistoryNode(operation, parent))
        linked == IF parent # None
                  THEN [pushed EXCEPT ![parent + 1].children = Append(@, index)]
                  ELSE pushed
    IN [nodes |-> linked, current |-> index, redo_stack |-> <<>>]

\* An undo that steps to the previous index instead of the node's parent.
undo_to_previous_index(h) ==
    IF h.current = None
    THEN [h |-> h, ret |-> NoOperation]
    ELSE LET cur == h.current
         IN [h |-> [nodes |-> h.nodes,
                    current |-> cur - 1,
                    redo_stack |-> Append(h.redo_stack, cur)],
             ret |-> NodeAt(h, cur).operation]

\* An undo that moves the cursor only when the node has a parent.
undo_stays_on_root(h) ==
    IF h.current = None
    THEN [h |-> h, ret |-> NoOperation]
    ELSE LET cur == h.current
             parent == NodeAt(h, cur).parent
         IN [h |-> [nodes |-> h.nodes,
                    current |-> IF parent # None THEN parent ELSE cur,
                    redo_stack |-> Append(h.redo_stack, cur)],
             ret |-> NodeAt(h, cur).operation]

\* An undo that also unlinks the node from its parent's children.
undo_unlinking_node(h) ==
    IF h.current = None
    THEN [h |-> h, ret |-> NoOperation]
    ELSE LET cur == h.current
             operation == NodeAt(h, cur).operation
             parent == NodeAt(h, cur).parent
             unlinked == IF parent # None
                         THEN [h.nodes EXCEPT ![parent + 1].children =
                                  SelectSeq(@, LAMBDA child : child # cur)]
                         ELSE h.nodes
         IN [h |-> [nodes |-> unlinked,
                    current |-> parent,
                    redo_stack |-> Append(h.redo_stack, cur)],
             ret |-> operation]

\* OperationHistory::undo: the history after undo() and the value returned.
undo(h) ==
    IF h.current = None
    THEN [h |-> h, ret |-> NoOperation]
    ELSE LET cur == h.current
             operation == NodeAt(h, cur).operation
             parent == NodeAt(h, cur).parent
         IN [h |-> [nodes |-> h.nodes,
                    current |-> parent,
                    redo_stack |-> Append(h.redo_stack, cur)],
             ret |-> operation]

\* A redo that reads the top of the redo stack without popping it.
redo_without_pop(h) ==
    IF h.redo_stack = <<>>
    THEN [h |-> h, ret |-> NoOperation]
    ELSE LET redo_index == h.redo_stack[Len(h.redo_stack)]
         IN [h |-> [nodes |-> h.nodes,
                    current |-> redo_index,
                    redo_stack |-> h.redo_stack],
             ret |-> NodeAt(h, redo_index).operation]

\* A redo that takes the first undone node, not the last.
redo_first_undone(h) ==
    IF h.redo_stack = <<>>
    THEN [h |-> h, ret |-> NoOperation]
    ELSE LET redo_index == h.redo_stack[1]
         IN [h |-> [nodes |-> h.nodes,
                    current |-> redo_index,
                    redo_stack |-> SubSeq(h.redo_stack, 2, Len(h.redo_stack))],
             ret |-> NodeAt(h, redo_index).operation]

\* OperationHistory::redo: the history after redo() and the value returned.
redo(h) ==
    IF h.redo_stack = <<>>
    THEN [h |-> h, ret |-> NoOperation]
    ELSE LET redo_index == h.redo_stack[Len(h.redo_stack)]
         IN [h |-> [nodes |-> h.nodes,
                    current |-> redo_index,
                    redo_stack |-> SubSeq(h.redo_stack, 1, Len(h.redo_stack) - 1)],
             ret |-> NodeAt(h, redo_index).operation]

\* OperationHistory::clear.
clear(h) == [nodes |-> <<>>, current |-> None, redo_stack |-> <<>>]

(***************************************************************************)
(* The observers.  hlast records the last call; run follows a history that *)
(* has seen, since it was last empty, only pushes and then only undos.     *)
(***************************************************************************)
NoCall == [op |-> "none", prevop |-> "none", arg |-> NoOperation,
           ret |-> NoOperation, pre |-> DefaultHistory]

Called(op, arg, ret) ==
    [op |-> op, prevop |-> hlast.op, arg |-> arg, ret |-> ret, pre |-> History]

FreshRun == [phase |-> "pushing", pushed |-> <<>>, returned |-> <<>>]

OtherRun == [phase |-> "other", pushed |-> <<>>, returned |-> <<>>]

RunAfterPush(operation) ==
    IF run.phase = "pushing"
    THEN [run EXCEPT !.pushed = Append(@, operation)]
    ELSE OtherRun

RunAfterUndo(ret) ==
    IF run.phase \in {"pushing", "undoing"} /\ Len(run.returned) <= Len(run.pushed)
    THEN [run EXCEPT !.phase = "undoing", !.returned = Append(@, ret)]
    ELSE OtherRun

SetHistory(h) ==
    /\ nodes' = h.nodes
    /\ current' = h.current
    /\ redo_stack' = h.redo_stack

(***************************************************************************)
(* The history's actions: one per public method that changes it.           *)
(***************************************************************************)
HInit ==
    /\ nodes = DefaultHistory.nodes
    /\ current = DefaultHistory.current
    /\ redo_stack = DefaultHistory.redo_stack
    /\ hlast = NoCall
    /\ run = FreshRun

Push ==
    /\ Len(nodes) < MaxNodes
    /\ \E operation \in Operation :
          /\ SetHistory(push(History, operation))
          /\ hlast' = Called("push", operation, NoOperation)
          /\ run' = RunAfterPush(operation)
    /\ UNCHANGED NotHistory

Undo ==
    LET r == undo(History)
    IN /\ SetHistory(r.h)
       /\ hlast' = Called("undo", NoOperation, r.ret)
       /\ run' = RunAfterUndo(r.ret)
       /\ UNCHANGED NotHistory

Redo ==
    LET r == redo(History)
    IN /\ SetHistory(r.h)
       /\ hlast' = Called("redo", NoOperation, r.ret)
       /\ run' = OtherRun
       /\ UNCHANGED NotHistory

Clear ==
    /\ SetHistory(clear(History))
    /\ hlast' = Called("clear", NoOperation, NoOperation)
    /\ run' = FreshRun
    /\ UNCHANGED NotHistory

(***************************************************************************)
(* The command bridge.  A tool call task runs send_command_and_wait        *)
(* (mcp_server.rs:271-289); the dispatcher's ui() tick (main.rs:118-262)   *)
(* is the consumer.  Both slots are behind RwLocks, so a step of the model *)
(* is one critical section; a task's sleep is a step of its own.           *)
(***************************************************************************)

\* The polling loop's length: for _ in 0..200.
max_attempts == 200

\* The McpCommand variants a call enqueues: one whose handler answers with
\* respond_success, and RequestUserInput, whose handler stores nothing.
CommandKinds == {"ShowNotification", "RequestUserInput"}

\* McpCommand, with the id the model gives each call's command.
McpCommand(id, kind) == [id |-> id, kind |-> kind]

\* The String a response carries: the text is told apart by who wrote it
\* and for which command.
Message(by, id) == [by |-> by, of |-> id]

\* "Timeout waiting for response".to_string()
Timeout == Message("Timeout waiting for response", 0)

\* A call that has not returned.
NoReturn == Message("running", 0)

\* Option<McpResponse>::None.
NoResponse == [variant |-> "None", message |-> Message("none", 0)]

\* McpResponse::Success(message) and McpResponse::UserInput(input).
McpResponse(variant, message) == [variant |-> variant, message |-> message]

\* The frontend's pending_input_request when it is None.
NoRequest == 0

\* A task outside send_command_and_wait.
IdleTask == [pc |-> "idle", attempt |-> 0, cmd |-> 0, sleeps |-> 0,
             checks |-> 0, early |-> {}]

\* The dispatcher between two ticks: the last tick's batch is done.
IdleUi == [pc |-> "mcp", commands |-> <<>>, mcp_commands |-> <<>>,
           k |-> 0, answered |-> 0]

\* The tick the dispatcher was in is over.
TickOver == ui.pc = "mcp" /\ ui.mcp_commands = <<>>

\* A task that has enqueued and not made its first poll yet.
BeforeFirstPoll(t) == t.pc \in {"sleep", "check"} /\ t.checks = 0

\* The ids of a sequence of commands.
Ids(commands) == [i \in 1..Len(commands) |-> commands[i].id]

\* What the observers note of a store: the response it overwrote, and
\* every task still before its first poll.
NoteStore(response) ==
    /\ lost' = IF response_queue # NoResponse
               THEN lost \cup {response_queue.message}
               ELSE lost
    /\ task' = [p \in DOMAIN task |->
                  IF BeforeFirstPoll(task[p])
                  THEN [task[p] EXCEPT !.early = @ \cup {response.message}]
                  ELSE task[p]]

\* A store that leaves an unconsumed response in the slot.
Store_keeps_unconsumed(response) ==
    /\ response_queue' = IF response_queue # NoResponse
                         THEN response_queue ELSE response
    /\ NoteStore(response)

\* A store into the response slot, *resp = Some(response), as
\* respond_success and the UserInputResponse branch of ui() make it.
Store(response) ==
    /\ response_queue' = response
    /\ NoteStore(response)

\* respond_success(message): the reply the handler of command id writes.
respond_success(id) == Store(McpResponse("Success", Message("handler", id)))

\* create_summoner_mcp_queues and the state of main() at launch, with the
\* tool call tasks P.
BInit(P) ==
    /\ command_queue = <<>>
    /\ response_queue = NoResponse
    /\ task = [p \in P |-> IdleTask]
    /\ ui = IdleUi
    /\ messages = <<>>
    /\ pending_input_request = NoRequest
    /\ enqueued = <<>>
    /\ drained = <<>>
    /\ results = [c \in 1..MaxCommands |-> NoReturn]
    /\ counts = [c \in 1..MaxCommands |-> [stores |-> 0, returns |-> 0]]
    /\ lost = {}
    /\ first_hit = FALSE

\* send_command_and_wait, lines 272-275: push the command under the lock;
\* `back` says at which end of the Vec.
EnqueueAt(p, back) ==
    /\ task[p].pc = "idle"
    /\ Len(enqueued) < MaxCommands
    /\ \E kind \in CommandKinds :
          LET id == Len(enqueued) + 1
              command == McpCommand(id, kind)
          IN /\ command_queue' = IF back THEN Append(command_queue, command)
                                 ELSE <<command>> \o command_queue
             /\ task' = [task EXCEPT ![p] =
                           [pc |-> "sleep", attempt |-> 0, cmd |-> id,
                            sleeps |-> 0, checks |-> 0, early |-> {}]]
             /\ enqueued' = Append(enqueued, id)
    /\ UNCHANGED <<response_queue, ui, messages, pending_input_request,
                   drained, results, counts, lost, first_hit>>
    /\ UNCHANGED NotBridge

\* A push at the front of the queue.
Enqueue_at_front(p) == EnqueueAt(p, FALSE)

\* send_command_and_wait, lines 272-275: queue.push(cmd).
Enqueue(p) == EnqueueAt(p, TRUE)

\* send_command_and_wait, line 278: the sleep of one round has elapsed.
SleepElapsed(p) ==
    /\ task[p].pc = "sleep"
    /\ task' = [task EXCEPT ![p].pc = "check", ![p].sleeps = @ + 1]
    /\ UNCHANGED <<command_queue, response_queue, ui, messages,
                   pending_input_request, enqueued, drained, results, counts,
                   lost, first_hit>>
    /\ UNCHANGED NotBridge

\* send_command_and_wait, lines 279-288: one check of the slot under the
\* lock in a loop of `limit` rounds.  A response found is returned (its
\* text, whichever variant it is) and, when `takes`, taken out of the slot;
\* the first `blind` checks do not look at the slot.  With no response the
\* task goes round again, or returns the timeout text when the loop is over.
Poll(p, limit, takes, blind) ==
    /\ task[p].pc = "check"
    /\ LET t == task[p]
       IN IF response_queue # NoResponse /\ t.checks >= blind
          THEN /\ response_queue' = IF takes THEN NoResponse ELSE response_queue
               /\ results' = [results EXCEPT ![t.cmd] = response_queue.message]
               /\ counts' = [counts EXCEPT ![t.cmd].returns = @ + 1]
               /\ task' = [task EXCEPT ![p] = IdleTask]
               /\ first_hit' = (first_hit \/ (t.checks = 0 /\
                                              response_queue.message \in t.early))
          ELSE /\ UNCHANGED <<response_queue, first_hit>>
               /\ IF t.attempt + 1 >= limit
                  THEN /\ results' = [results EXCEPT ![t.cmd] = Timeout]
                       /\ counts' = [counts EXCEPT ![t.cmd].returns = @ + 1]
                       /\ task' = [task EXCEPT ![p] = IdleTask]
                  ELSE /\ UNCHANGED <<results, counts>>
                       /\ task' = [task EXCEPT ![p] =
                                     [t EXCEPT !.pc = "sleep",
                                               !.attempt = @ + 1,
                                               !.checks = @ + 1,
                                               !.early = {}]]
    /\ UNCHANGED <<command_queue, ui, messages, pending_input_request,
                   enqueued, drained, lost>>
    /\ UNCHANGED NotBridge

\* A loop of one round too many: for _ in 0..=200.
Check_one_round_more(p, limit) == Poll(p, limit + 1, TRUE, 0)

\* A check that clones the response and leaves it in the slot.
Check_without_take(p, limit) == Poll(p, limit, FALSE, 0)

\* A loop whose first round sleeps and does not look at the slot.
Check_skips_first_round(p, limit) == Poll(p, limit, TRUE, 1)

\* send_command_and_wait, lines 279-288: response.take() in every round.
Check(p, limit) == Poll(p, limit, TRUE, 0)

\* chat.rs:251-256: the user clicks an option of the pending input request;
\* the frontend sends UserInputResponse and clears the request.
UserClick ==
    /\ pending_input_request # NoRequest
    /\ messages' = Append(messages, Message("user", pending_input_request))
    /\ pending_input_request' = NoRequest
    /\ UNCHANGED <<command_queue, response_queue, task, ui, enqueued, drained,
                   results, counts, lost, first_hit>>
    /\ UNCHANGED NotBridge

\* ui(), line 119: a tick begins by collecting the frontend's commands.
TickBegin ==
    /\ TickOver
    /\ ui' = [IdleUi EXCEPT !.pc = "commands", !.commands = messages]
    /\ messages' = <<>>
    /\ UNCHANGED <<command_queue, response_queue, task, pending_input_request,
                   enqueued, drained, results, counts, lost, first_hit>>
    /\ UNCHANGED NotBridge

\* ui(), lines 147-150: FrontendCommand::UserInputResponse stores the
\* user's text in the response slot.
UserInputResponse ==
    /\ ui.pc = "commands"
    /\ ui.commands # <<>>
    /\ Store(McpResponse("UserInput", Head(ui.commands)))
    /\ ui' = [ui EXCEPT !.commands = Tail(@)]
    /\ UNCHANGED <<command_queue, messages, pending_input_request, enqueued,
                   drained, results, counts, first_hit>>
    /\ UNCHANGED NotBridge

\* ui(), lines 251-254: the queue's contents become the tick's batch;
\* `clears` says whether the queue is emptied.
Drain(clears) ==
    /\ ui.pc = "commands"
    /\ ui.commands = <<>>
    /\ ui' = [ui EXCEPT !.pc = "mcp", !.mcp_commands = command_queue,
                        !.k = Len(command_queue)]
    /\ command_queue' = IF clears THEN <<>> ELSE command_queue
    /\ drained' = drained \o Ids(command_queue)
    /\ UNCHANGED <<response_queue, task, messages, pending_input_request,
                   enqueued, results, counts, lost, first_hit>>
    /\ UNCHANGED NotBridge

\* A drain that copies the queue and leaves it as it is.
DrainCommands_by_clone == Drain(FALSE)

\* ui(), lines 251-254: queue.drain(..).collect() under the write lock.
DrainCommands == Drain(TRUE)

\* ui(), lines 256-258, and handle_mcp_command: the next command of the
\* batch is handled.  RequestUserInput sends UserInputRequest to the
\* frontend, which sets pending_input_request (lib.rs:183-189), and stores
\* no response; every other command ends in one respond_success.  With the
\* last command handled the tick is over: nothing after it (lines 260-276)
\* touches the bridge.
handle_mcp_command ==
    /\ ui.pc = "mcp"
    /\ ui.mcp_commands # <<>>
    /\ LET command == Head(ui.mcp_commands)
       IN IF command.kind = "RequestUserInput"
          THEN /\ pending_input_request' = command.id
               /\ ui' = [ui EXCEPT !.mcp_commands = Tail(@)]
               /\ UNCHANGED <<response_queue, task, counts, lost>>
          ELSE /\ respond_success(command.id)
               /\ counts' = [counts EXCEPT ![command.id].stores = @ + 1]
               /\ ui' = [ui EXCEPT !.mcp_commands = Tail(@),
                                   !.answered = command.id]
               /\ UNCHANGED pending_input_request
    /\ UNCHANGED <<command_queue, messages, enqueued, drained, results,
                   first_hit>>
    /\ UNCHANGED NotBridge

(***************************************************************************)
(* The stream decoder.  parse_stream_json_line (cli.rs:217-319) maps one   *)
(* JSON value and the reader's carried state (session_id, current_tool_id) *)
(* to a list of events and the new carried state.  A JSON object is a      *)
(* record whose domain is the set of its keys; its values are strings,     *)
(* objects or (total_cost_usd, num_turns) numbers.                         *)
(***************************************************************************)

\* The variants of CliEvent (cli.rs:80-90).
SessionStarted(session_id) ==
    [event |-> "SessionStarted", session_id |-> session_id]

TextDelta(text) == [event |-> "TextDelta", text |-> text]

ThinkingDelta(text) == [event |-> "ThinkingDelta", text |-> text]

ToolUseStarted(tool_name, tool_id) ==
    [event |-> "ToolUseStarted", tool_name |-> tool_name, tool_id |-> tool_id]

ToolUseInputDelta(tool_id, partial_json) ==
    [event |-> "ToolUseInputDelta", tool_id |-> tool_id,
     partial_json |-> partial_json]

ToolUseFinished(tool_id) == [event |-> "ToolUseFinished", tool_id |-> tool_id]

TurnComplete(session_id) ==
    [event |-> "TurnComplete", session_id |-> session_id]

Complete(session_id, total_cost_usd, num_turns) ==
    [event |-> "Complete", session_id |-> session_id,
     total_cost_usd |-> total_cost_usd, num_turns |-> num_turns]

Error(message) == [event |-> "Error", message |-> message]

\* value.get(key).and_then(|v| v.as_str()).unwrap_or(default)
StrOr(value, key, default) ==
    IF key \in DOMAIN value THEN value[key] ELSE default

\* What the decoder returns: the events and the carried state after it.
Decoded(events, session_id, current_tool_id) ==
    [events |-> events, session_id |-> session_id,
     current_tool_id |-> current_tool_id]

\* parse_stream_json_line, lines 232-303: the "stream_event" arm, given the
\* inner event object.
stream_event(event, session_id, current_tool_id) ==
    LET event_type == StrOr(event, "type", "")
        nothing == Decoded(<<>>, session_id, current_tool_id)
    IN CASE event_type = "content_block_start" ->
              IF "content_block" \in DOMAIN event
                 /\ StrOr(event.content_block, "type", "") = "tool_use"
              THEN LET tool_name == StrOr(event.content_block, "name", "unknown")
                       tool_id == StrOr(event.content_block, "id", "")
                   IN Decoded(<<ToolUseStarted(tool_name, tool_id)>>,
                              session_id, tool_id)
              ELSE nothing
         [] event_type = "content_block_delta" ->
              IF "delta" \in DOMAIN event
              THEN LET delta == event.delta
                       delta_type == StrOr(delta, "type", "")
                   IN CASE delta_type = "text_delta" /\ "text" \in DOMAIN delta ->
                             Decoded(<<TextDelta(delta.text)>>,
                                     session_id, current_tool_id)
                        [] delta_type = "input_json_delta"
                              /\ "partial_json" \in DOMAIN delta ->
                             Decoded(<<ToolUseInputDelta(current_tool_id,
                                                         delta.partial_json)>>,
                                     session_id, current_tool_id)
                        [] delta_type = "thinking_delta"
                              /\ "thinking" \in DOMAIN delta ->
                             Decoded(<<ThinkingDelta(delta.thinking)>>,
                                     session_id, current_tool_id)
                        [] OTHER -> nothing
              ELSE nothing
         [] event_type = "content_block_stop" ->
              Decoded(<<ToolUseFinished(current_tool_id)>>, session_id, "")
         [] event_type = "message_stop" ->
              Decoded(<<TurnComplete(session_id)>>, session_id, current_tool_id)
         [] OTHER -> nothing

\* parse_stream_json_line, lines 217-319, as the code computes it.
DecodeValue(value, session_id, current_tool_id) ==
    LET message_type == StrOr(value, "type", "")
        nothing == Decoded(<<>>, session_id, current_tool_id)
    IN CASE message_type = "system" ->
              IF "session_id" \in DOMAIN value
              THEN Decoded(<<SessionStarted(value.session_id)>>,
                           value.session_id, current_tool_id)
              ELSE nothing
         [] message_type = "stream_event" ->
              IF "event" \in DOMAIN value
              THEN stream_event(value.event, session_id, current_tool_id)
              ELSE nothing
         [] message_type = "result" ->
              LET total_cost == IF "total_cost_usd" \in DOMAIN value
                                THEN value.total_cost_usd ELSE None
                  \* as_u64().unwrap_or(0) as u32: the counts of the model
                  \* are far below 2^32, so the cast keeps them
                  num_turns == IF "num_turns" \in DOMAIN value
                               THEN value.num_turns ELSE 0
              IN Decoded(<<Complete(session_id, total_cost, num_turns)>>,
                         session_id, current_tool_id)
         [] OTHER -> nothing

\* A decoder that emits SessionStarted and does not store the id.
parse_without_session_store(value, session_id, current_tool_id) ==
    [DecodeValue(value, session_id, current_tool_id)
       EXCEPT !.session_id = session_id]

\* A decoder whose content_block_stop does not clear current_tool_id.
parse_without_tool_clear(value, session_id, current_tool_id) ==
    LET d == DecodeValue(value, session_id, current_tool_id)
    IN IF d.events # <<>> /\ d.events[1].event = "ToolUseFinished"
       THEN [d EXCEPT !.current_tool_id = current_tool_id]
       ELSE d

\* A decoder that drops current_tool_id on every line with no event.
parse_clears_tool_on_no_event(value, session_id, current_tool_id) ==
    LET d == DecodeValue(value, session_id, current_tool_id)
    IN IF d.events = <<>> THEN [d EXCEPT !.current_tool_id = ""] ELSE d

\* parse_stream_json_line(&json_value, &mut session_id, &mut current_tool_id)
parse_stream_json_line(value, session_id, current_tool_id) ==
    DecodeValue(value, session_id, current_tool_id)

\* The lines of a stdout stream: a blank line, a line that is no JSON, and
\* a line that is the JSON value `value`.
BlankLine == [raw |-> "   "]

NotJsonLine == [raw |-> "not json"]

JsonLine(value) == [raw |-> "json", value |-> value]

\* line.trim().is_empty()
IsBlank(line) == line.raw = "   "

\* serde_json::from_str(&line) is Ok(value).
IsJson(line) == "value" \in DOMAIN line

\* The body of the stdout reader's loop for one line read, lines 175-184:
\* a blank line and a line that is no JSON are skipped, any other line is
\* decoded.
ReadLine(line, session_id, current_tool_id) ==
    IF IsBlank(line) THEN Decoded(<<>>, session_id, current_tool_id)
    ELSE IF ~IsJson(line) THEN Decoded(<<>>, session_id, current_tool_id)
    ELSE parse_stream_json_line(line.value, session_id, current_tool_id)

\* The stream events of the protocol, as JSON objects.
StreamEvent(event) == JsonLine([type |-> "stream_event", event |-> event])

SystemLine(session_id) ==
    JsonLine([type |-> "system", session_id |-> session_id])

ToolUseStart(id) ==
    StreamEvent([type |-> "content_block_start",
                 content_block |-> [type |-> "tool_use", name |-> "create_game",
                                    id |-> id]])

\* A content_block_start of type tool_use that carries no id.
ToolUseStartNoId ==
    StreamEvent([type |-> "content_block_start",
                 content_block |-> [type |-> "tool_use"]])

Delta(delta) == StreamEvent([type |-> "content_block_delta", delta |-> delta])

InputJsonDelta ==
    Delta([type |-> "input_json_delta", partial_json |-> "{\"a\":"])

TextDeltaLine == Delta([type |-> "text_delta", text |-> "hi"])

BlockStop == StreamEvent([type |-> "content_block_stop"])

MessageStop == StreamEvent([type |-> "message_stop"])

\* total_cost_usd 0.02 is written in cents.
ResultLine == JsonLine([type |-> "result", total_cost_usd |-> 2, num_turns |-> 1])

\* The lines whose type, inner event.type or delta.type is not one the
\* decoder knows, or is missing.
UnknownLines ==
    { JsonLine([type |-> "assistant", session_id |-> "s9"]),
      JsonLine([subtype |-> "init"]),
      JsonLine([type |-> "stream_event"]),
      StreamEvent([type |-> "message_start"]),
      StreamEvent([index |-> "0"]),
      Delta([type |-> "signature_delta", text |-> "x"]),
      Delta([text |-> "x"]) }

\* The lines fed to the decoder.
DecoderLines ==
    { BlankLine, NotJsonLine,
      SystemLine("s1"), SystemLine("s2"), JsonLine([type |-> "system"]),
      ToolUseStart("X"), ToolUseStart("Y"),
      StreamEvent([type |-> "content_block_start",
                   content_block |-> [type |-> "text"]]),
      ToolUseStartNoId,
      InputJsonDelta, TextDeltaLine,
      Delta([type |-> "thinking_delta", thinking |-> "hm"]),
      Delta([type |-> "input_json_delta"]),
      BlockStop, MessageStop,
      ResultLine, JsonLine([type |-> "result"]) } \cup UnknownLines

\* A reader that is reading a stream from its start.
NewDecoder ==
    [pc |-> "read", session_id |-> "", current_tool_id |-> "",
     lines |-> <<>>, out |-> <<>>, events |-> <<>>]

DInit == decoder = NewDecoder

\* The reader loop, lines 169-190, for one line of `lines`, in a stream of
\* at most `limit` lines: what it decodes is appended to the events it has
\* sent.
ReadFrom(lines, limit) ==
    /\ decoder.pc = "read"
    /\ Len(decoder.lines) < limit
    /\ \E line \in lines :
          LET d == ReadLine(line, decoder.session_id, decoder.current_tool_id)
          IN decoder' = [decoder EXCEPT
                           !.session_id = d.session_id,
                           !.current_tool_id = d.current_tool_id,
                           !.lines = Append(@, line),
                           !.out = Append(@, d.events),
                           !.events = @ \o d.events]
    /\ UNCHANGED NotDecoder

\* The reader loop, lines 169-190, for one line of the decoder's stream.
DecodeLine == ReadFrom(DecoderLines, MaxDecoderLines)

\* The reader loop ends: reader.lines() is over (end of stream) or yields
\* Err(_) (lines 170-173).
DecodeEnd ==
    /\ decoder.pc = "read"
    /\ decoder' = [decoder EXCEPT !.pc = "done"]
    /\ UNCHANGED NotDecoder

(***************************************************************************)
(* The frontend's tool calls.  The dispatcher turns every CliEvent into    *)
(* BackendEvents (main.rs:172-249) and the webview hands them, in order,   *)
(* to handle_backend_event (site/src/lib.rs:85-214), which keeps the tool  *)
(* calls of the message being streamed in AppState.active_tools.           *)
(***************************************************************************)

\* The variants of BackendEvent the dispatcher sends for a CliEvent.
StatusUpdate(status) == [event |-> "StatusUpdate", status |-> status]

StreamingStarted(session_id) ==
    [event |-> "StreamingStarted", session_id |-> session_id]

RequestComplete(session_id, total_cost_usd, num_turns) ==
    [event |-> "RequestComplete", session_id |-> session_id,
     total_cost_usd |-> total_cost_usd, num_turns |-> num_turns]

\* ui(), lines 172-249: the BackendEvents sent for one CliEvent, in order
\* (no self-test is running, so no TestResult is among them).
BackendEvents(event) ==
    CASE event.event = "SessionStarted" ->
            <<StreamingStarted(event.session_id), StatusUpdate("Streaming")>>
      [] event.event = "ToolUseStarted" ->
            <<StatusUpdate("UsingTool"), event>>
      [] event.event = "ToolUseFinished" ->
            <<event, StatusUpdate("Streaming")>>
      [] event.event = "Complete" ->
            <<RequestComplete(event.session_id, event.total_cost_usd,
                              event.num_turns),
              StatusUpdate("Idle")>>
      [] event.event = "Error" -> <<event, StatusUpdate("Idle")>>
      [] OTHER -> <<event>>

\* state.rs:27-32: the ToolUseBlock pushed for a ToolUseStarted event.
ToolUseBlock(tool_name, tool_id) ==
    [tool_name |-> tool_name, tool_id |-> tool_id, input_json |-> "",
     finished |-> FALSE]

\* tools.iter_mut().rev().find(|t| t.tool_id == tool_id ||
\* tool_id.is_empty()): the index of the tool call found, 0 when there is
\* none; `rev` says whether the search starts at the last one.
FindTool(tools, tool_id, rev) ==
    LET found == {k \in 1..Len(tools) :
                     tools[k].tool_id = tool_id \/ tool_id = ""}
    IN IF found = {} THEN 0
       ELSE IF rev THEN CHOOSE k \in found : \A l \in found : l <= k
       ELSE CHOOSE k \in found : \A l \in found : k <= l

\* handle_backend_event, lines 85-214: active_tools after one event.
HandleBackendEvent(tools, event, rev) ==
    CASE event.event = "StreamingStarted" -> <<>>
      [] event.event = "ToolUseStarted" ->
            Append(tools, ToolUseBlock(event.tool_name, event.tool_id))
      [] event.event = "ToolUseInputDelta" ->
            LET k == FindTool(tools, event.tool_id, rev)
            IN IF k = 0 THEN tools
               ELSE [tools EXCEPT ![k].input_json = @ \o event.partial_json]
      [] event.event = "ToolUseFinished" ->
            LET k == FindTool(tools, event.tool_id, rev)
            IN IF k = 0 THEN tools
               ELSE [tools EXCEPT ![k].finished = TRUE]
      \* finalize_streaming_message (state.rs:132-159) moves the tool calls
      \* into the finished message
      [] event.event \in {"RequestComplete", "Error"} -> <<>>
      [] OTHER -> tools

\* A frontend that gives an event to the first tool call that matches.
handle_backend_event_first_match(tools, event) ==
    HandleBackendEvent(tools, event, FALSE)

\* handle_backend_event(state, event)
handle_backend_event(tools, event) == HandleBackendEvent(tools, event, TRUE)

\* active_tools after the events of a sequence, handled in order.
RECURSIVE HandleAll(_, _)
HandleAll(tools, events) ==
    IF events = <<>> THEN tools
    ELSE HandleAll(handle_backend_event(tools, Head(events)), Tail(events))

\* An input_json_delta line carrying `partial_json`.
Fragment(partial_json) ==
    Delta([type |-> "input_json_delta", partial_json |-> partial_json])

\* The fragments of a tool call's input.
Fragments == {"{\"a\":", "1}"}

FragmentLines == {Fragment(f) : f \in Fragments}

\* The lines of the stream in the specification of the frontend.
ToolLines ==
    {ToolUseStart("X"), ToolUseStartNoId, BlockStop, SystemLine("s1")}
        \cup FragmentLines

\* AppState::new(), state.rs:115-130.
NewFrontend == [seen |-> 0, active_tools |-> <<>>]

FInit == frontend = NewFrontend

\* The reader loop, lines 169-190, for one line of a stream of tool calls.
ToolStreamLine == ReadFrom(ToolLines, MaxToolLines)

\* The next event the reader sent goes through the dispatcher's loop
\* (main.rs:172-249) to the frontend, which handles what was sent for it.
ForwardCliEvent ==
    /\ frontend.seen < Len(decoder.events)
    /\ LET event == decoder.events[frontend.seen + 1]
       IN frontend' = [seen |-> frontend.seen + 1,
                       active_tools |-> HandleAll(frontend.active_tools,
                                                  BackendEvents(event))]
    /\ UNCHANGED NotFrontend

(***************************************************************************)
(* The agent process session.  spawn_cli_worker (cli.rs:92-215) starts the *)
(* worker thread, which owns the child process; a launched process gets a  *)
(* stdout reader thread (lines 164-191) that decodes its lines and sends   *)
(* the events on the channel the dispatcher reads (main.rs:172-249).  The  *)
(* stderr reader (lines 157-160) discards what it reads and has no state.  *)
(* A step is one operation on a channel, a pipe or a process.              *)
(***************************************************************************)

\* The processes a behaviour can launch: at most one per command.
ChildIds == 1..MaxCliCommands

\* The variants of CliCommand (cli.rs:71-78); prompt, session_id and model
\* only shape the process's arguments.
CliCommand == {"StartQuery", "Cancel"}

\* The lines a process writes in the specification of the session.
CliLines == {SystemLine("s1"), MessageStop, ResultLine, NotJsonLine}

\* An event on the channel, with what the observers note of it: who sent
\* it, for which process, the line it was decoded from and its place among
\* the events decoded from that process's stdout.
Sent(event, by, child, line, n) ==
    [cli_event |-> event, by |-> by, child |-> child, line |-> line, n |-> n]

\* A process that was not launched, and its reader.
NoChild == [status |-> "none", stdout |-> <<>>, written |-> 0]

NoReader ==
    [pc |-> "none", session_id |-> "", current_tool_id |-> "",
     events |-> <<>>, decoded |-> 0, sent |-> 0]

\* The worker thread when it is started (lines 97-98).
NewWorker ==
    [pc |-> "recv", cmd |-> "none", child |-> None, current_child |-> None,
     current_session_id |-> "", outcome |-> "none"]

\* The number of the next process to launch.
NextChild == Cardinality({c \in ChildIds : children[c].status # "none"}) + 1

\* The lines the processes in S have written.
RECURSIVE Written(_)
Written(S) ==
    IF S = {} THEN 0
    ELSE LET c == CHOOSE x \in S : TRUE
         IN children[c].written + Written(S \ {c})

\* A process that has not exited.
Live(c) == children[c].status \in {"running", "killed"}

\* main(), lines 35-38, and spawn_cli_worker, lines 96-98.
CInit(ids) ==
    /\ cli_cmd_rx = <<>>
    /\ cli_event_rx = <<>>
    /\ worker = NewWorker
    /\ children = [c \in ids |-> NoChild]
    /\ reader = [c \in ids |-> NoReader]
    /\ cli_ui = [sent |-> 0, handled |-> [c \in ids |-> 0]]
    /\ retired = {}
    /\ completed = {}

\* ui(), lines 131-146: the dispatcher sends a command to the worker.
SendCliCommand(cmd) ==
    /\ cli_ui.sent < MaxCliCommands
    /\ cli_cmd_rx' = Append(cli_cmd_rx, cmd)
    /\ cli_ui' = [cli_ui EXCEPT !.sent = @ + 1]
    /\ UNCHANGED <<cli_event_rx, worker, children, reader, retired, completed>>
    /\ UNCHANGED NotCli

\* ui(), lines 131-140: FrontendCommand::SendPrompt (handle_run_test sends
\* the same command for its cli_prompt test, line 1344).
SendPrompt == SendCliCommand("StartQuery")

\* ui(), lines 141-146: FrontendCommand::CancelRequest.
CancelRequest == SendCliCommand("Cancel")

\* What the worker does once the child it held, if any, is gone.
AfterChild(cmd) == IF cmd = "StartQuery" THEN "spawn" ELSE "emit"

\* Lines 101-103 and 202-203: command_receiver.recv() returns a command and
\* current_child.take() empties the handle.  The process the last command
\* killed and waited for is from now on one the worker has left behind.
WorkerRecv ==
    /\ worker.pc = "recv"
    /\ cli_cmd_rx # <<>>
    /\ LET cmd == Head(cli_cmd_rx)
       IN worker' = [worker EXCEPT
                       !.pc = IF worker.current_child # None
                              THEN "kill" ELSE AfterChild(cmd),
                       !.cmd = cmd,
                       !.child = worker.current_child,
                       !.current_child = None]
    /\ cli_cmd_rx' = Tail(cli_cmd_rx)
    /\ retired' = IF worker.child # None
                  THEN retired \cup {worker.child} ELSE retired
    /\ UNCHANGED <<cli_event_rx, children, reader, cli_ui, completed>>
    /\ UNCHANGED NotCli

\* Lines 104 and 204: child.kill(); a process that has exited stays so.
WorkerKill ==
    /\ worker.pc = "kill"
    /\ children' = [children EXCEPT ![worker.child].status =
                      IF @ = "running" THEN "killed" ELSE @]
    /\ worker' = [worker EXCEPT !.pc = "wait"]
    /\ UNCHANGED <<cli_cmd_rx, cli_event_rx, reader, cli_ui, retired, completed>>
    /\ UNCHANGED NotCli

\* Lines 105 and 205: child.wait() returns; `blocks` says whether it
\* returns only once the process has exited.
WorkerWaitFor(blocks) ==
    /\ worker.pc = "wait"
    /\ blocks => children[worker.child].status = "exited"
    /\ worker' = [worker EXCEPT !.pc = AfterChild(worker.cmd)]
    /\ UNCHANGED <<cli_cmd_rx, cli_event_rx, children, reader, cli_ui,
                   retired, completed>>
    /\ UNCHANGED NotCli

\* A wait that returns while the process is still there.
WorkerWait_without_exit == WorkerWaitFor(FALSE)

\* Lines 105 and 205: child.wait().
WorkerWait == WorkerWaitFor(TRUE)

\* Lines 151-193: cmd.spawn() is Ok(child): the process runs, its stdout
\* reader is started, the worker holds the handle and resets
\* current_session_id.
SpawnOk ==
    /\ worker.pc = "spawn"
    /\ NextChild \in ChildIds
    /\ children' = [children EXCEPT ![NextChild].status = "running"]
    /\ reader' = [reader EXCEPT ![NextChild].pc = "read"]
    /\ worker' = [worker EXCEPT !.pc = "recv", !.current_child = NextChild,
                                !.current_session_id = "",
                                !.outcome = "ok"]
    /\ UNCHANGED <<cli_cmd_rx, cli_event_rx, cli_ui, retired, completed>>
    /\ UNCHANGED NotCli

\* The Error event of a failed launch.
SpawnError ==
    Sent(Error("Failed to spawn claude CLI"), "worker", None, BlankLine, 0)

\* Lines 195-199: cmd.spawn() is Err(error): the worker sends `times` Error
\* events and goes back to its loop.
SpawnFails(times) ==
    /\ worker.pc = "spawn"
    /\ cli_event_rx' = cli_event_rx \o [i \in 1..times |-> SpawnError]
    /\ worker' = [worker EXCEPT !.pc = "recv", !.outcome = "err"]
    /\ UNCHANGED <<cli_cmd_rx, children, reader, cli_ui, retired, completed>>
    /\ UNCHANGED NotCli

\* A failed launch reported twice.
SpawnErr_twice == SpawnFails(2)

\* Lines 195-199: cmd.spawn() is Err(error).
SpawnErr == SpawnFails(1)

\* Lines 207-209: the Cancel arm sends TurnComplete with the worker's
\* current_session_id.
WorkerEmit ==
    /\ worker.pc = "emit"
    /\ cli_event_rx' =
          Append(cli_event_rx,
                 Sent(TurnComplete(worker.current_session_id), "worker",
                      worker.child, BlankLine, 0))
    /\ worker' = [worker EXCEPT !.pc = "recv"]
    /\ UNCHANGED <<cli_cmd_rx, children, reader, cli_ui, retired, completed>>
    /\ UNCHANGED NotCli

\* The process writes a line to its stdout pipe.
ProcessWrites(c) ==
    /\ children[c].status = "running"
    /\ Written(ChildIds) < MaxLines
    /\ \E line \in CliLines :
          children' = [children EXCEPT ![c].stdout = Append(@, line),
                                       ![c].written = @ + 1]
    /\ UNCHANGED <<cli_cmd_rx, cli_event_rx, worker, reader, cli_ui, retired,
                   completed>>
    /\ UNCHANGED NotCli

\* The process exits: of its own accord, or killed.
ProcessExits(c) ==
    /\ Live(c)
    /\ children' = [children EXCEPT ![c].status = "exited"]
    /\ UNCHANGED <<cli_cmd_rx, cli_event_rx, worker, reader, cli_ui, retired,
                   completed>>
    /\ UNCHANGED NotCli

\* The events decoded from one line, as the observers note them.
Noted(events, c, line) ==
    [i \in 1..Len(events) |->
        Sent(events[i], "reader", c, line, reader[c].decoded + i)]

\* Lines 169-184: the reader takes the next line out of the pipe and
\* decodes it.
ReaderRead(c) ==
    /\ reader[c].pc = "read"
    /\ children[c].stdout # <<>>
    /\ LET line == Head(children[c].stdout)
           d == ReadLine(line, reader[c].session_id, reader[c].current_tool_id)
       IN reader' = [reader EXCEPT
                       ![c].session_id = d.session_id,
                       ![c].current_tool_id = d.current_tool_id,
                       ![c].events = Noted(d.events, c, line),
                       ![c].decoded = @ + Len(d.events),
                       ![c].pc = IF d.events = <<>> THEN "read" ELSE "send"]
    /\ children' = [children EXCEPT ![c].stdout = Tail(@)]
    /\ UNCHANGED <<cli_cmd_rx, cli_event_rx, worker, cli_ui, retired, completed>>
    /\ UNCHANGED NotCli

\* Lines 185-189: event_sender_clone.send(event) for the next event of the
\* line; `back` says at which end of the channel it arrives.
ReaderSendAt(c, back) ==
    /\ reader[c].pc = "send"
    /\ LET m == Head(reader[c].events)
       IN /\ cli_event_rx' = IF back THEN Append(cli_event_rx, m)
                             ELSE <<m>> \o cli_event_rx
          /\ completed' = IF m.cli_event.event = "Complete"
                          THEN completed \cup {c} ELSE completed
    /\ reader' = [reader EXCEPT
                    ![c].events = Tail(@),
                    ![c].sent = @ + 1,
                    ![c].pc = IF Tail(reader[c].events) = <<>>
                              THEN "read" ELSE "send"]
    /\ UNCHANGED <<cli_cmd_rx, worker, children, cli_ui, retired>>
    /\ UNCHANGED NotCli

\* A send that overtakes the events waiting in the channel.
ReaderSend_overtakes(c) == ReaderSendAt(c, FALSE)

\* Lines 185-189: event_sender_clone.send(event).
ReaderSend(c) == ReaderSendAt(c, TRUE)

\* Lines 169-173 and 190-191: reader.lines() is over, at the end of the
\* stream (the pipe is empty and the process has exited) or with Err(_);
\* the thread ends, having sent `events`.
ReaderEnds(c, events) ==
    /\ reader[c].pc = "read"
    /\ reader' = [reader EXCEPT ![c].pc = "done"]
    /\ cli_event_rx' = cli_event_rx \o
          [i \in 1..Len(events) |-> Sent(events[i], "reader", c, BlankLine, 0)]
    /\ UNCHANGED <<cli_cmd_rx, worker, children, cli_ui, retired, completed>>
    /\ UNCHANGED NotCli

\* A reader that reports the closure of the stream as the end of the query.
ReaderEnd_sends_complete(c) ==
    ReaderEnds(c, <<Complete(reader[c].session_id, None, 0)>>)

\* Lines 169-173 and 190-191: the reader thread ends and sends nothing.
ReaderEnd(c) == ReaderEnds(c, <<>>)

\* ui(), lines 172-249: the dispatcher takes the next event out of the
\* channel (cli_event_rx.try_iter()) and handles it.
HandleCliEvent ==
    /\ cli_event_rx # <<>>
    /\ LET m == Head(cli_event_rx)
       IN cli_ui' = IF m.by = "reader"
                    THEN [cli_ui EXCEPT !.handled[m.child] = @ + 1]
                    ELSE cli_ui
    /\ cli_event_rx' = Tail(cli_event_rx)
    /\ UNCHANGED <<cli_cmd_rx, worker, children, reader, retired, completed>>
    /\ UNCHANGED NotCli


(***************************************************************************)
(* The game tools.  handle_mcp_command (main.rs:896-1128) runs one tool    *)
(* command against the scene (SceneState, scene.rs:9-22), the engine's     *)
(* game_state map and the history, and stores the handler's status string  *)
(* with respond_success.  JSON texts are the records of the decoder's      *)
(* lines; the engine's spawn_scene and the file system can fail.  The      *)
(* frontend's PlayGame, PauseGame and StopGame (main.rs:157-165) and the   *)
(* close detection of run_systems (main.rs:97-116) act on the same scene;  *)
(* whether the engine holds a window of a given title is the engine's      *)
(* answer, an input of the step.  Scripts are not run.                     *)
(***************************************************************************)

\* Option<T>: Some(value) and None.
Some(value) == [some |-> TRUE, value |-> value]

Nothing == [some |-> FALSE]

\* A map with one more entry, and with one entry less (HashMap::insert,
\* HashMap::remove).
Insert(map, key, value) ==
    [k \in DOMAIN map \cup {key} |-> IF k = key THEN value ELSE map[k]]

Remove(map, key) == [k \in DOMAIN map \ {key} |-> map[k]]

\* for (key, value) in more { map.insert(key, value) }
InsertAll(map, more) ==
    [k \in DOMAIN map \cup DOMAIN more |->
        IF k \in DOMAIN more THEN more[k] ELSE map[k]]

\* HashMap::new()
EmptyMap == [k \in {} |-> 0]

\* str::starts_with
StartsWith(text, prefix) ==
    Len(text) >= Len(prefix) /\ SubSeq(text, 1, Len(prefix)) = prefix

\* Option<Script> of an entity: an embedded source and the enabled flag.
Script(source, enabled) == [some |-> TRUE, source |-> source, enabled |-> enabled]

\* The script a definition gives an entity (build_entity, game.rs:298-303).
ScriptOf(script) == IF script.some THEN Script(script.value, TRUE) ELSE Nothing

\* The variants of Operation (history.rs:2-25).
CreateGameOp(definition) == [kind |-> "CreateGame", definition |-> definition]

AddEntityOp(name, entity_json) ==
    [kind |-> "AddEntity", name |-> name, entity_json |-> entity_json]

RemoveEntityOp(name, entity_json) ==
    [kind |-> "RemoveEntity", name |-> name, entity_json |-> entity_json]

UpdateScriptOp(entity_name, old_script, new_script) ==
    [kind |-> "UpdateScript", entity_name |-> entity_name,
     old_script |-> old_script, new_script |-> new_script]

SetGameStateOp(key, old_value, new_value) ==
    [kind |-> "SetGameState", key |-> key, old_value |-> old_value,
     new_value |-> new_value]

ResetGameOp == [kind |-> "ResetGame"]

\* Operation::description, history.rs:28-41.
description(operation) ==
    CASE operation.kind = "CreateGame" -> "Create game"
      [] operation.kind = "AddEntity" ->
            "Add entity '" \o operation.name \o "'"
      [] operation.kind = "RemoveEntity" ->
            "Remove entity '" \o operation.name \o "'"
      [] operation.kind = "UpdateScript" ->
            "Update script on '" \o operation.entity_name \o "'"
      [] operation.kind = "SetGameState" ->
            "Set state '" \o operation.key \o "' = "
               \o ToString(operation.new_value)
      [] operation.kind = "ResetGame" -> "Reset game"

\* OperationHistory::to_json, history.rs:97-138, as the JSON value it
\* builds before serde_json prints it: the first `listed` nodes of the list
\* in index order, each with its id, description, current and can_redo
\* flags, its parent when it has one and its children when it has any
\* (seconds_ago, the node's age, is left out with the timestamp).
ToJson(h, listed) ==
    LET entry(index) ==
            LET node == NodeAt(h, index)
                is_current == h.current = index
                can_redo == \E i \in 1..Len(h.redo_stack) : h.redo_stack[i] = index
                flags == [id |-> index,
                          description |-> description(node.operation),
                          current |-> is_current,
                          can_redo |-> can_redo]
                with_parent == IF node.parent # None
                               THEN Insert(flags, "parent", node.parent)
                               ELSE flags
            IN IF node.children # <<>>
               THEN Insert(with_parent, "children", node.children)
               ELSE with_parent
    IN [current |-> h.current,
        total_operations |-> listed,
        can_undo |-> h.current # None,
        can_redo |-> h.redo_stack # <<>>,
        operations |-> [i \in 1..listed |-> entry(i - 1)]]

\* A snapshot that stops at the cursor.
to_json_up_to_cursor(h) == ToJson(h, h.current + 1)

\* OperationHistory::to_json: every node of self.nodes is listed.
to_json(h) == ToJson(h, Len(h.nodes))

\* serde_json::from_str::<GameDefinition>: the title is required, the other
\* fields have defaults (game.rs:10-23).  entities maps a name to the
\* entity's Option<String> script.
ParseGameDefinition(text) ==
    IF IsJson(text) /\ "title" \in DOMAIN text.value
    THEN Some([title |-> text.value.title,
               initial_state |-> StrOr(text.value, "initial_state", EmptyMap),
               entities |-> StrOr(text.value, "entities", EmptyMap)])
    ELSE Nothing

\* serde_json::from_str::<EntityDefinition>: the name is required
\* (game.rs:79-100).
ParseEntityDefinition(text) ==
    IF IsJson(text) /\ "name" \in DOMAIN text.value
    THEN Some([name |-> text.value.name,
               script |-> IF "script" \in DOMAIN text.value
                          THEN Some(text.value.script) ELSE Nothing])
    ELSE Nothing

\* serde_json::to_string(entity_def), and json!({"name": name}).to_string().
EntityJson(name, script) ==
    IF script.some THEN JsonLine([name |-> name, script |-> script.value])
    ELSE JsonLine([name |-> name])

\* SceneState::default() (scene.rs:24-41) with the engine's game_state map
\* and, per game entity, its script; `handled` counts the tool commands
\* handled and `last` notes the last one: its kind, whether it recorded an
\* operation, whether it failed, whether the engine spawned what it was
\* asked to, and the entity names and the game state it found.
NoCommand ==
    [kind |-> "none", recorded |-> FALSE, failed |-> FALSE, spawns |-> FALSE,
     names |-> {}, game_state |-> EmptyMap]

NewScene ==
    [camera_entity |-> FALSE, entities |-> {},
     game_definition |-> Nothing, editor_window_title |-> Nothing,
     game_entities |-> EmptyMap, entity_definitions |-> EmptyMap,
     play_state |-> "Stopped", play_window_title |-> Nothing,
     game_state |-> EmptyMap, handled |-> 0, last |-> NoCommand]

\* What a handler leaves: the scene, the history, its status string, and
\* whether it took a failure path and whether it recorded an operation.
Outcome(s, h, message, failed, recorded) ==
    [scene |-> s, h |-> h, message |-> message, failed |-> failed,
     recorded |-> recorded]

\* SceneState::is_open, scene.rs:79-81.
is_open(s) ==
    s.editor_window_title.some \/ s.play_window_title.some \/ s.entities # {}

\* SceneState::close_play_window, scene.rs:68-77.
close_play_window(s) == [s EXCEPT !.play_window_title = Nothing]

\* The lines 554-557 of handle_create_game and 745-748 of
\* handle_reset_game: a game that is not stopped is stopped and its play
\* window closed.
StopPlaying(s) ==
    IF s.play_state # "Stopped"
    THEN [close_play_window(s) EXCEPT !.play_state = "Stopped"]
    ELSE s

\* SceneState::teardown_game_only, scene.rs:87-103.
teardown_game_only(s) ==
    [s EXCEPT !.game_entities = EmptyMap, !.camera_entity = FALSE]

\* SceneState::teardown, scene.rs:83-85 and 105-117.
teardown(s) ==
    [teardown_game_only(s) EXCEPT !.entities = {},
                                  !.editor_window_title = Nothing,
                                  !.play_window_title = Nothing,
                                  !.play_state = "Stopped"]

\* script_runtime.reset_game_state(): the engine empties the map.
reset_game_state(s) == [s EXCEPT !.game_state = EmptyMap]

\* The game entities spawn_game_from_definition registers, lines 491-508:
\* the definition's entities and the scene's "Camera" parent, which has no
\* camera component and is neither the lens nor the sun.
SpawnedEntities(definition) ==
    InsertAll([name \in {"Camera"} |-> Nothing],
              [name \in DOMAIN definition.entities |->
                  ScriptOf(definition.entities[name])])

\* The number of game entities that carry a script.
ScriptCount(s) ==
    Cardinality({name \in DOMAIN s.game_entities : s.game_entities[name].some})

\* spawn_game_from_definition, lines 456-546; `spawns` says whether the
\* engine's spawn_scene returns Ok.  Returns the scene and Ok(message) or
\* Err(message).
spawn_game_from_definition(s, definition, spawns) ==
    LET torn == IF is_open(s) THEN teardown_game_only(s) ELSE s
        spawned == [torn EXCEPT
                      !.game_entities = InsertAll(@, SpawnedEntities(definition)),
                      !.camera_entity = TRUE,
                      !.game_state = InsertAll(@, definition.initial_state),
                      !.entity_definitions =
                          [name \in DOMAIN definition.entities |->
                              EntityJson(name, definition.entities[name])],
                      !.play_state = "Stopped",
                      !.editor_window_title =
                          Some("Summoner - " \o definition.title),
                      !.game_definition = Some(definition)]
    IN IF spawns
       THEN [scene |-> spawned, ok |-> TRUE,
             message |-> "Game '" \o definition.title \o "' created with "
                            \o ToString(Cardinality(DOMAIN spawned.game_entities))
                            \o " entities and " \o ToString(ScriptCount(spawned))
                            \o " active scripts. Editor window opened."]
       ELSE [scene |-> torn, ok |-> FALSE,
             message |-> "Error spawning game scene: SpawnError"]

\* handle_create_game, lines 548-569.
handle_create_game(s, h, definition_json, spawns) ==
    LET definition == ParseGameDefinition(definition_json)
    IN IF ~definition.some
       THEN Outcome(s, h, "Error parsing game definition: expected value",
                    TRUE, FALSE)
       ELSE LET r == spawn_game_from_definition(StopPlaying(s),
                                                definition.value, spawns)
            IN IF r.ok
               THEN Outcome(r.scene,
                            push(clear(h), CreateGameOp(definition_json)),
                            r.message, FALSE, TRUE)
               ELSE Outcome(r.scene, h, r.message, TRUE, FALSE)

\* A handle_update_entity_script that records the update before it looks
\* the entity up.
handle_update_entity_script_recording_first(s, h, entity_name, script_source) ==
    LET recorded == push(h, UpdateScriptOp(entity_name, Nothing, script_source))
    IN IF entity_name \notin DOMAIN s.game_entities
       THEN Outcome(s, recorded,
                    "Error: entity '" \o entity_name \o "' not found",
                    TRUE, FALSE)
       ELSE Outcome([s EXCEPT !.game_entities[entity_name] =
                                 Script(script_source, TRUE)],
                    recorded,
                    "Updated script on entity '" \o entity_name \o "'",
                    FALSE, TRUE)

\* handle_update_entity_script, lines 571-603.
handle_update_entity_script(s, h, entity_name, script_source) ==
    IF entity_name \notin DOMAIN s.game_entities
    THEN Outcome(s, h, "Error: entity '" \o entity_name \o "' not found",
                 TRUE, FALSE)
    ELSE LET script == s.game_entities[entity_name]
             old_script == IF script.some THEN Some(script.source) ELSE Nothing
         IN Outcome([s EXCEPT !.game_entities[entity_name] =
                                  Script(script_source, TRUE)],
                    push(h, UpdateScriptOp(entity_name, old_script,
                                           script_source)),
                    "Updated script on entity '" \o entity_name \o "'",
                    FALSE, TRUE)

\* spawn_single_entity, lines 605-645: the scene and Ok(name) or
\* Err(message).
spawn_single_entity(s, entity_json, spawns) ==
    LET entity_def == ParseEntityDefinition(entity_json)
    IN IF ~entity_def.some
       THEN [scene |-> s, ok |-> FALSE,
             message |-> "Error parsing entity definition: expected value"]
       ELSE LET name == entity_def.value.name
            IN IF name \in DOMAIN s.game_entities
               THEN [scene |-> s, ok |-> FALSE,
                     message |-> "Error: entity '" \o name
                                    \o "' already exists"]
               ELSE IF spawns
               THEN [scene |-> [s EXCEPT
                                  !.game_entities =
                                      Insert(@, name,
                                             ScriptOf(entity_def.value.script)),
                                  !.entity_definitions =
                                      Insert(@, name, entity_json)],
                     ok |-> TRUE, message |-> name]
               ELSE [scene |-> s, ok |-> FALSE,
                     message |-> "Error spawning entity: SpawnError"]

\* handle_add_game_entity, lines 647-658.
handle_add_game_entity(s, h, entity_json, spawns) ==
    LET r == spawn_single_entity(s, entity_json, spawns)
    IN IF r.ok
       THEN Outcome(r.scene, push(h, AddEntityOp(r.message, entity_json)),
                    "Added entity '" \o r.message \o "' to game", FALSE, TRUE)
       ELSE Outcome(r.scene, h, r.message, TRUE, FALSE)

\* handle_remove_game_entity, lines 660-677.
handle_remove_game_entity(s, h, name) ==
    IF name \in DOMAIN s.game_entities
    THEN LET entity_json == IF name \in DOMAIN s.entity_definitions
                            THEN s.entity_definitions[name]
                            ELSE EntityJson(name, Nothing)
         IN Outcome([s EXCEPT !.game_entities = Remove(@, name),
                              !.entity_definitions = Remove(@, name)],
                    push(h, RemoveEntityOp(name, entity_json)),
                    "Removed entity '" \o name \o "' from game", FALSE, TRUE)
    ELSE Outcome(s, h, "Error: entity '" \o name \o "' not found",
                 TRUE, FALSE)

\* A handle_set_game_state that records no previous value.
handle_set_game_state_without_old(s, h, key, value) ==
    Outcome([s EXCEPT !.game_state = Insert(@, key, value)],
            push(h, SetGameStateOp(key, Nothing, value)),
            "Set state '" \o key \o "' = " \o ToString(value),
            FALSE, TRUE)

\* handle_set_game_state, lines 679-690.
handle_set_game_state(s, h, key, value) ==
    LET old_value == IF key \in DOMAIN s.game_state
                     THEN Some(s.game_state[key]) ELSE Nothing
    IN Outcome([s EXCEPT !.game_state = Insert(@, key, value)],
               push(h, SetGameStateOp(key, old_value, value)),
               "Set state '" \o key \o "' = " \o ToString(value),
               FALSE, TRUE)

\* handle_reset_game, lines 739-760.
handle_reset_game(s, h, spawns) ==
    IF ~s.game_definition.some
    THEN Outcome(s, h, "Error: no game to reset (create one first)",
                 TRUE, FALSE)
    ELSE LET r == spawn_game_from_definition(reset_game_state(StopPlaying(s)),
                                             s.game_definition.value, spawns)
         IN IF r.ok
            THEN Outcome(r.scene, push(h, ResetGameOp), r.message, FALSE, TRUE)
            ELSE Outcome(r.scene, h, r.message, TRUE, FALSE)

\* handle_undo, lines 762-818; `benign` says whether an unset cursor is
\* answered with the plain "Nothing to undo".
UndoTool(s, h, spawns, benign) ==
    IF h.current = None
    THEN Outcome(IF benign THEN s ELSE reset_game_state(s), h,
                 IF benign THEN "Nothing to undo"
                 ELSE "Error: nothing to undo",
                 FALSE, FALSE)
    ELSE LET operation == undo(h).ret
             undone ==
                CASE operation.kind = "UpdateScript" ->
                        IF operation.entity_name \in DOMAIN s.game_entities
                        THEN [s EXCEPT !.game_entities[operation.entity_name] =
                                 IF operation.old_script.some
                                 THEN Script(operation.old_script.value, TRUE)
                                 ELSE Script("", FALSE)]
                        ELSE s
                  [] operation.kind = "AddEntity" ->
                        [s EXCEPT !.game_entities = Remove(@, operation.name)]
                  [] operation.kind = "RemoveEntity" ->
                        spawn_single_entity(s, operation.entity_json,
                                            spawns).scene
                  [] operation.kind = "SetGameState" ->
                        IF operation.old_value.some
                        THEN [s EXCEPT !.game_state =
                                 Insert(@, operation.key,
                                        operation.old_value.value)]
                        ELSE [s EXCEPT !.game_state = Remove(@, operation.key)]
                  [] operation.kind \in {"CreateGame", "ResetGame"} ->
                        reset_game_state(teardown_game_only(s))
         IN Outcome(undone, undo(h).h, "Undone: " \o description(operation),
                    FALSE, FALSE)

\* An undo tool that answers an unset cursor with an error and resets the
\* game state.
handle_undo_as_error(s, h, spawns) == UndoTool(s, h, spawns, FALSE)

\* handle_undo(world)
handle_undo(s, h, spawns) == UndoTool(s, h, spawns, TRUE)

\* handle_redo, lines 820-867.
handle_redo(s, h, spawns) ==
    IF h.redo_stack = <<>>
    THEN Outcome(s, h, "Nothing to redo", FALSE, FALSE)
    ELSE LET operation == redo(h).ret
             redone ==
                CASE operation.kind = "UpdateScript" ->
                        IF operation.entity_name \in DOMAIN s.game_entities
                        THEN [s EXCEPT !.game_entities[operation.entity_name] =
                                 Script(operation.new_script, TRUE)]
                        ELSE s
                  [] operation.kind = "AddEntity" ->
                        spawn_single_entity(s, operation.entity_json,
                                            spawns).scene
                  [] operation.kind = "RemoveEntity" ->
                        [s EXCEPT !.game_entities = Remove(@, operation.name)]
                  [] operation.kind = "SetGameState" ->
                        [s EXCEPT !.game_state =
                            Insert(@, operation.key, operation.new_value)]
                  [] operation.kind = "CreateGame" ->
                        LET def == ParseGameDefinition(operation.definition)
                        IN IF def.some
                           THEN spawn_game_from_definition(s, def.value,
                                                           spawns).scene
                           ELSE s
                  [] operation.kind = "ResetGame" ->
                        IF s.game_definition.some
                        THEN spawn_game_from_definition(
                                 reset_game_state(teardown_game_only(s)),
                                 s.game_definition.value, spawns).scene
                        ELSE s
         IN Outcome(redone, redo(h).h, "Redone: " \o description(operation),
                    FALSE, FALSE)

\* handle_export_scene, lines 869-894; `writes` says whether
\* std::fs::write returns Ok (the scene always serializes).
handle_export_scene(s, h, path, writes) ==
    IF ~s.game_definition.some
    THEN Outcome(s, h, "Error: no game to export (create one first)",
                 TRUE, FALSE)
    ELSE IF writes
    THEN Outcome(s, h, "Exported scene to '" \o path \o "' (2048 bytes)",
                 FALSE, FALSE)
    ELSE Outcome(s, h, "Error writing file '" \o path \o "': denied",
                 TRUE, FALSE)

\* serde_json::to_string_pretty of an object and of an array; what is
\* inside is left out.
PrettyObject == "{ }"

PrettyArray == "[ ]"

\* The shapes SpawnEntity knows, line 977.
valid_shapes == {"cube", "sphere", "cylinder", "cone", "torus", "plane"}

\* The arms of handle_mcp_command for MoveEntity, RotateEntity and
\* ScaleEntity, lines 994-1032.
TransformEntity(s, h, name, done) ==
    IF name \in s.entities
    THEN Outcome(s, h, done \o " entity '" \o name \o "' to [0, 0, 0]",
                 FALSE, FALSE)
    ELSE Outcome(s, h, "Error: entity '" \o name \o "' not found", TRUE, FALSE)

\* handle_mcp_command, lines 896-1128, for the commands of the scene and of
\* the game: what the arm of `command` leaves and the string it hands to
\* respond_success.
HandleCommand(s, h, command, spawns, writes) ==
    CASE command.kind = "Open3dWindow" ->
            IF is_open(s)
            THEN Outcome(s, h, "3D window is already open", FALSE, FALSE)
            ELSE Outcome([s EXCEPT !.camera_entity = TRUE], h,
                         "3D window opened with camera and sun", FALSE, FALSE)
      [] command.kind = "Close3dWindow" ->
            IF ~is_open(s)
            THEN Outcome(s, h, "3D window is not open", FALSE, FALSE)
            ELSE Outcome(teardown(s), h, "3D window closed", FALSE, FALSE)
      [] command.kind = "SpawnEntity" ->
            IF ~is_open(s)
            THEN Outcome(s, h, "Error: 3D window is not open", TRUE, FALSE)
            ELSE IF command.name \in s.entities
            THEN Outcome(s, h, "Error: entity '" \o command.name
                                  \o "' already exists", TRUE, FALSE)
            ELSE IF command.shape \notin valid_shapes
            THEN Outcome(s, h, "Error: unknown shape '" \o command.shape
                                  \o "'. Use: cube, sphere, cylinder, cone, torus, plane",
                         TRUE, FALSE)
            ELSE Outcome([s EXCEPT !.entities = @ \cup {command.name}], h,
                         "Spawned " \o command.shape \o " entity '"
                            \o command.name \o "'", FALSE, FALSE)
      [] command.kind = "RemoveEntity" ->
            IF command.name \in s.entities
            THEN Outcome([s EXCEPT !.entities = @ \ {command.name}], h,
                         "Removed entity '" \o command.name \o "'",
                         FALSE, FALSE)
            ELSE Outcome(s, h, "Error: entity '" \o command.name
                                  \o "' not found", TRUE, FALSE)
      [] command.kind = "MoveEntity" ->
            TransformEntity(s, h, command.name, "Moved")
      [] command.kind = "RotateEntity" ->
            TransformEntity(s, h, command.name, "Rotated")
      [] command.kind = "ScaleEntity" ->
            TransformEntity(s, h, command.name, "Scaled")
      [] command.kind = "SetCamera" ->
            IF s.camera_entity
            THEN Outcome(s, h, "Camera set: focus=[0, 0, 0], radius=10, yaw=0, pitch=0",
                         FALSE, FALSE)
            ELSE Outcome(s, h, "Error: no camera (3D window not open)",
                         TRUE, FALSE)
      [] command.kind = "ListEntities" ->
            Outcome(s, h, PrettyArray, FALSE, FALSE)
      [] command.kind = "ClearScene" ->
            Outcome([s EXCEPT !.entities = {}], h,
                    "Cleared " \o ToString(Cardinality(s.entities))
                       \o " entities from scene", FALSE, FALSE)
      [] command.kind = "CreateGame" ->
            handle_create_game(s, h, command.definition, spawns)
      [] command.kind = "UpdateEntityScript" ->
            handle_update_entity_script(s, h, command.entity_name,
                                        command.script)
      [] command.kind = "AddGameEntity" ->
            handle_add_game_entity(s, h, command.entity_json, spawns)
      [] command.kind = "RemoveGameEntity" ->
            handle_remove_game_entity(s, h, command.name)
      [] command.kind = "SetGameState" ->
            handle_set_game_state(s, h, command.key, command.value)
      [] command.kind \in {"GetGameState", "GetSceneInfo", "GetHistory"} ->
            Outcome(s, h, PrettyObject, FALSE, FALSE)
      [] command.kind = "ResetGame" -> handle_reset_game(s, h, spawns)
      [] command.kind = "Undo" -> handle_undo(s, h, spawns)
      [] command.kind = "Redo" -> handle_redo(s, h, spawns)
      [] command.kind = "ExportScene" ->
            handle_export_scene(s, h, command.path, writes)

\* The game definitions, the entity definitions and the commands the tool
\* server sends in the specification of the game tools.
Pong ==
    [title |-> "Pong", initial_state |-> [score |-> 1],
     entities |-> [ball |-> Some("bounce")]]

Maze == [title |-> "Maze"]

GameJsons == {NotJsonLine, JsonLine(Pong), JsonLine(Maze)}

EntityJsons ==
    {NotJsonLine, JsonLine([name |-> "ball"]),
     JsonLine([name |-> "wall", script |-> "block"])}

GameCommands ==
    {[kind |-> "CreateGame", definition |-> j] : j \in GameJsons}
    \cup {[kind |-> "AddGameEntity", entity_json |-> j] : j \in EntityJsons}
    \cup {[kind |-> "RemoveGameEntity", name |-> "ball"],
          [kind |-> "UpdateEntityScript", entity_name |-> "ball",
           script |-> "roll"]}
    \cup {[kind |-> "SetGameState", key |-> "score", value |-> v] :
             v \in {1, 2}}
    \cup {[kind |-> k] :
             k \in {"ResetGame", "Undo", "Redo", "GetHistory", "GetGameState",
                    "GetSceneInfo", "Open3dWindow", "Close3dWindow",
                    "SetCamera", "ListEntities", "ClearScene"}}
    \cup {[kind |-> "ExportScene", path |-> "out.json"]}
    \cup {[kind |-> "SpawnEntity", name |-> "rock", shape |-> shape] :
             shape \in {"cube", "blob"}}
    \cup {[kind |-> k, name |-> "rock"] :
             k \in {"RemoveEntity", "MoveEntity", "RotateEntity",
                    "ScaleEntity"}}

SInit == scene = NewScene

\* respond_success(message), lines 280-283, with the string itself.
RespondSuccess(message) == response_queue' = McpResponse("Success", message)

\* ui(), lines 256-258: the dispatcher handles one tool command, one of
\* `commands`; the handler's string is stored for the caller.
GameCommandOf(commands) ==
    /\ scene.handled < MaxGameCommands
    /\ \E command \in commands, spawns, writes \in BOOLEAN :
          LET r == HandleCommand(scene, History, command, spawns, writes)
          IN /\ scene' = [r.scene EXCEPT
                            !.handled = scene.handled + 1,
                            !.last = [kind |-> command.kind,
                                      recorded |-> r.recorded,
                                      failed |-> r.failed,
                                      spawns |-> spawns,
                                      names |-> DOMAIN scene.game_entities,
                                      game_state |-> scene.game_state]]
             /\ SetHistory(r.h)
             /\ RespondSuccess(r.message)
    /\ UNCHANGED <<hlast, run>>
    /\ UNCHANGED <<command_queue, task, ui, messages, pending_input_request,
                   enqueued, drained, results, counts, lost, first_hit>>
    /\ UNCHANGED <<cvars, dvars, fvars, tvars>>

\* ui(), lines 256-258, for the commands of the game tools.
GameCommand == GameCommandOf(GameCommands)

\* SceneState::has_game, scene.rs:44-46.
has_game(s) == s.game_definition.some

\* handle_play_game, lines 1162-1183; game_title is the title of
\* game_definition (lines 535-536).
handle_play_game(s) ==
    IF ~has_game(s) \/ s.play_state = "Playing"
    THEN s
    ELSE LET play_title ==
                "Summoner - " \o s.game_definition.value.title \o " [Play]"
             windowed == IF s.play_state = "Stopped"
                         THEN [s EXCEPT !.play_window_title = Some(play_title)]
                         ELSE s
         IN [windowed EXCEPT !.play_state = "Playing"]

\* handle_pause_game, lines 1185-1192.
handle_pause_game(s) ==
    IF s.play_state # "Playing" THEN s ELSE [s EXCEPT !.play_state = "Paused"]

\* The game is spawned again from its definition with the game state
\* reset, lines 1143-1147 and 1202-1206; the Result is dropped.
Respawn(s, spawns) ==
    IF s.game_definition.some
    THEN spawn_game_from_definition(reset_game_state(s),
                                    s.game_definition.value, spawns).scene
    ELSE s

\* handle_stop_game, lines 1194-1207.
handle_stop_game(s, spawns) ==
    IF s.play_state = "Stopped"
    THEN s
    ELSE Respawn([close_play_window(s) EXCEPT !.play_state = "Stopped"],
                 spawns)

\* detect_window_closes, lines 1138-1160; `play_open` and `editor_open`
\* say whether the engine holds a window of the play title and of the
\* editor title.
detect_window_closes(s, play_open, editor_open, spawns) ==
    LET played ==
           IF s.play_window_title.some /\ ~play_open
           THEN LET closed == [s EXCEPT !.play_window_title = Nothing]
                IN IF closed.play_state # "Stopped"
                   THEN Respawn([closed EXCEPT !.play_state = "Stopped"],
                                spawns)
                   ELSE closed
           ELSE s
    IN IF played.editor_window_title.some /\ ~editor_open
       THEN [played EXCEPT !.editor_window_title = Nothing]
       ELSE played

\* What a step of the frontend's play commands leaves alone.
NotScene == <<hvars, bvars, cvars, dvars, fvars, tvars>>

\* ui(), lines 157-159: FrontendCommand::PlayGame.
PlayGame ==
    /\ scene' = handle_play_game(scene)
    /\ UNCHANGED NotScene

\* ui(), lines 160-162: FrontendCommand::PauseGame.
PauseGame ==
    /\ scene' = handle_pause_game(scene)
    /\ UNCHANGED NotScene

\* ui(), lines 163-165: FrontendCommand::StopGame.
StopGame ==
    /\ \E spawns \in BOOLEAN : scene' = handle_stop_game(scene, spawns)
    /\ UNCHANGED NotScene

\* run_systems, lines 97-116, at the end of a frame.
DetectWindowCloses ==
    /\ \E play_open, editor_open, spawns \in BOOLEAN :
          scene' = detect_window_closes(scene, play_open, editor_open, spawns)
    /\ UNCHANGED NotScene

\* The tool commands of the specification of the play state.
PlayToolCommands ==
    {[kind |-> "CreateGame", definition |-> j] :
        j \in {JsonLine(Pong), JsonLine(Maze)}}
    \cup {[kind |-> "SetGameState", key |-> "score", value |-> 2]}
    \cup {[kind |-> k] : k \in {"ResetGame", "Undo", "Redo", "Close3dWindow"}}

(***************************************************************************)
(* The dispatcher's tick.  ui() (main.rs:118-262) collects the commands    *)
(* the frontend has sent and handles them, handles the process events      *)
(* try_iter() yields, drains the tool command queue under its lock and     *)
(* handles the batch, then forwards what the self-test threads have sent.  *)
(* The frontend, the worker, the tool call tasks and the self-test threads *)
(* run beside it and may add to its inputs at any point of the tick.       *)
(***************************************************************************)

\* BackendEvent::TestResult, without the measured duration_ms.
TestResult(test_name, success, message) ==
    [event |-> "TestResult", test_name |-> test_name, success |-> success,
     message |-> message]

\* BackendEvent::Notification.
Notification(title, body) ==
    [event |-> "Notification", title |-> title, body |-> body]

\* BackendEvent::ContentDisplay.
ContentDisplay(content, format) ==
    [event |-> "ContentDisplay", content |-> content, format |-> format]

\* CliCommand::StartQuery and CliCommand::Cancel.
StartQuery(prompt) == [command |-> "StartQuery", prompt |-> prompt]

Cancel == [command |-> "Cancel"]

\* FrontendCommand::RunTest.
RunTest(test_name) == [command |-> "RunTest", test_name |-> test_name]

\* The dispatcher at launch, its inputs empty (main.rs:34-60): the
\* frontend's messages, the channel of process events, the tool command
\* queue and the channel of the self-test threads; the locals of ui(); the
\* fields the handlers write; the events sent to the frontend and the
\* commands sent to the worker; the self-test threads running.  The
\* observers: `arrived` counts the items that have arrived, `at_start`
\* holds the three queues as the tick found them and `handled` the items
\* the tick has handled, per queue.
NoItems == [messages |-> <<>>, cli_event_rx |-> <<>>, mcp_command_queue |-> <<>>]

NewTick ==
    [pc |-> "idle",
     messages |-> <<>>, cli_event_rx |-> <<>>, mcp_command_queue |-> <<>>,
     test_result_rx |-> <<>>,
     commands |-> <<>>, mcp_commands |-> <<>>,
     connected |-> FALSE, cli_prompt_test_running |-> FALSE,
     mcp_response_queue |-> NoResponse,
     sent |-> <<>>, cli_cmd_tx |-> <<>>, threads |-> <<>>,
     arrived |-> 0, at_start |-> NoItems, handled |-> NoItems]

TInit == tick = NewTick

\* self.ctx.send(event), for each of the events in order.
Send(t, events) == [t EXCEPT !.sent = @ \o events]

\* handle_run_test, lines 1227-1374; `unknown_arms` says whether the
\* default arm arms the cli_prompt flag.
RunTestWith(t, test_name, unknown_arms) ==
    CASE test_name = "ipc_echo" ->
            Send(t, <<TestResult("ipc_echo", TRUE, "IPC round-trip successful")>>)
      [] test_name = "mcp_round_trip" ->
            [t EXCEPT !.threads = Append(@, "mcp_round_trip")]
      [] test_name = "show_notification" ->
            Send(t, <<Notification("Test Notification",
                                   "This notification was triggered by the show_notification test."),
                      TestResult("show_notification", TRUE,
                                 "Notification sent to UI")>>)
      [] test_name = "display_content" ->
            Send(t, <<ContentDisplay("# Test Content", "Markdown"),
                      TestResult("display_content", TRUE,
                                 "Content displayed in chat")>>)
      [] test_name = "status_cycle" ->
            [t EXCEPT !.threads = Append(@, "status_cycle")]
      [] test_name = "cli_prompt" ->
            [Send(t, <<StatusUpdate("Thinking")>>) EXCEPT
                !.cli_prompt_test_running = TRUE,
                !.cli_cmd_tx = Append(@, StartQuery("Say hello in exactly 3 words")),
                !.threads = Append(@, "cli_prompt")]
      [] OTHER ->
            [Send(t, <<TestResult(test_name, FALSE,
                                  "Unknown test: " \o test_name)>>) EXCEPT
                !.cli_prompt_test_running = @ \/ unknown_arms]

\* A handle_run_test whose default arm arms the cli_prompt flag.
handle_run_test_arming(t, test_name) == RunTestWith(t, test_name, TRUE)

\* handle_run_test, lines 1227-1374.
handle_run_test(t, test_name) == RunTestWith(t, test_name, FALSE)

\* ui(), lines 120-170: one FrontendCommand (the commands that act on the
\* world and its windows, lines 154-168, are not among the inputs).
HandleFrontend(t, cmd) ==
    CASE cmd.command = "Ready" ->
            IF ~t.connected
            THEN [Send(t, <<[event |-> "Connected"], StatusUpdate("Idle")>>)
                    EXCEPT !.connected = TRUE]
            ELSE t
      [] cmd.command = "SendPrompt" ->
            [Send(t, <<StatusUpdate("Thinking")>>) EXCEPT
                !.cli_cmd_tx = Append(@, StartQuery(cmd.prompt))]
      [] cmd.command = "CancelRequest" ->
            Send([t EXCEPT !.cli_cmd_tx = Append(@, Cancel)],
                 <<StatusUpdate("Idle")>>)
      [] cmd.command = "UserInputResponse" ->
            [t EXCEPT !.mcp_response_queue =
                         McpResponse("UserInput", cmd.response)]
      [] cmd.command = "RunTest" -> handle_run_test(t, cmd.test_name)

\* ui(), lines 172-249: one CliEvent; Complete and Error also end a running
\* cli_prompt self-test, and with `swaps` they clear its flag as they read
\* it.
HandleEventWith(t, event, swaps) ==
    LET forwarded == Send(t, BackendEvents(event))
    IN IF event.event \in {"Complete", "Error"} /\ t.cli_prompt_test_running
       THEN [Send(forwarded,
                  <<IF event.event = "Complete"
                    THEN TestResult("cli_prompt", TRUE,
                                    "CLI completed (" \o ToString(event.num_turns)
                                       \o " turns)")
                    ELSE TestResult("cli_prompt", FALSE, event.message)>>)
               EXCEPT !.cli_prompt_test_running = ~swaps]
       ELSE forwarded

\* A handler that reads the flag with load() and leaves it set.
HandleEvent_loading_flag(t, event) == HandleEventWith(t, event, FALSE)

\* ui(), lines 172-249: the flag is read and cleared by swap(false).
HandleEvent(t, event) == HandleEventWith(t, event, TRUE)

\* handle_mcp_command, lines 898-919, for the two commands of the bridge.
HandleTool(t, command) ==
    CASE command.kind = "ShowNotification" ->
            [Send(t, <<Notification(command.title, command.body)>>) EXCEPT
                !.mcp_response_queue =
                    McpResponse("Success", "Notification shown")]
      [] command.kind = "RequestUserInput" ->
            Send(t, <<[event |-> "UserInputRequest",
                       request_id |-> command.request_id]>>)

\* What a self-test thread sends, lines 1240-1362, and whether it ends the
\* cli_prompt self-test: mcp_round_trip reports the status of its request
\* (`ok`), status_cycle five statuses and a result, cli_prompt a timeout
\* when the flag is still set after its sleep.
ThreadSends(t, name, ok) ==
    CASE name = "mcp_round_trip" ->
            <<TestResult("mcp_round_trip", ok,
                         IF ok THEN "MCP server responded with status 200"
                         ELSE "MCP request failed: refused")>>
      [] name = "status_cycle" ->
            <<StatusUpdate("Idle"), StatusUpdate("Thinking"),
              StatusUpdate("Streaming"), StatusUpdate("UsingTool"),
              StatusUpdate("Idle"),
              TestResult("status_cycle", TRUE,
                         "Cycled through all status values")>>
      [] name = "cli_prompt" ->
            IF t.cli_prompt_test_running
            THEN <<TestResult("cli_prompt", FALSE,
                              "Timed out after 60s waiting for CLI response")>>
            ELSE <<>>

\* The inputs: the commands the frontend sends, the events the worker and
\* the readers send, the commands the tool call tasks push.
TestNames == {"ipc_echo", "cli_prompt", "warp_drive"}

FrontendCommands ==
    {[command |-> "Ready"],
     [command |-> "SendPrompt", prompt |-> "hi"],
     [command |-> "UserInputResponse", response |-> "yes"]}
    \cup {RunTest(n) : n \in TestNames}

CliEvents ==
    {TextDelta("hi"), Complete("s1", 2, 1)}

ToolCommands ==
    {[kind |-> "ShowNotification", title |-> "t", body |-> "b"],
     [kind |-> "RequestUserInput", request_id |-> "r1"]}

\* An item of a queue: what arrived, and the number of its arrival.
Item(t, value) == [id |-> t.arrived + 1, value |-> value]

\* The item arrives at the back of the queue `field`.
Arrives(field, values) ==
    /\ tick.arrived < MaxTickItems
    /\ \E value \in values :
          tick' = [tick EXCEPT ![field] = Append(@, Item(tick, value)),
                               !.arrived = @ + 1]
    /\ UNCHANGED NotTick

\* The frontend posts a command (site/src/lib.rs, chat.rs, tests.rs).
FrontendSends == Arrives("messages", FrontendCommands)

\* The worker or a reader sends an event (cli.rs:92-215).
WorkerSends == Arrives("cli_event_rx", CliEvents)

\* A tool call task pushes a command (mcp_server.rs:272-275).
ToolCallPushes == Arrives("mcp_command_queue", ToolCommands)

\* A self-test thread runs to its end (lines 1240-1362), sending what it
\* has to send to test_result_rx.
TestThreadRuns ==
    /\ \E i \in 1..Len(tick.threads), ok \in BOOLEAN :
          LET name == tick.threads[i]
          IN tick' = [tick EXCEPT
                        !.threads = SubSeq(@, 1, i - 1)
                                       \o SubSeq(@, i + 1, Len(@)),
                        !.test_result_rx = @ \o ThreadSends(tick, name, ok),
                        !.cli_prompt_test_running =
                            IF name = "cli_prompt" THEN FALSE ELSE @]
    /\ UNCHANGED NotTick

\* ui(), line 119: drain_messages().collect() takes every command the
\* frontend has sent so far; with none the tick goes on to the events.
UiBegins ==
    /\ tick.pc = "idle"
    /\ tick' = [tick EXCEPT
                  !.pc = IF tick.messages = <<>> THEN "events" ELSE "commands",
                  !.commands = tick.messages,
                  !.messages = <<>>,
                  !.sent = <<>>,
                  !.at_start = [messages |-> tick.messages,
                                cli_event_rx |-> tick.cli_event_rx,
                                mcp_command_queue |-> tick.mcp_command_queue],
                  !.handled = NoItems]
    /\ UNCHANGED NotTick

\* ui(), lines 120-170: the next command of the batch is handled.
HandleFrontendCommand ==
    /\ tick.pc = "commands"
    /\ LET item == Head(tick.commands)
           t == HandleFrontend(tick, item.value)
       IN tick' = [t EXCEPT
                     !.commands = Tail(@),
                     !.pc = IF Len(tick.commands) = 1 THEN "events" ELSE @,
                     !.handled.messages = Append(@, item)]
    /\ UNCHANGED NotTick

\* ui(), lines 172-249: try_iter() yields the next event when the channel
\* holds one and ends the loop when it holds none.
TryIterCliEvents ==
    /\ tick.pc = "events"
    /\ IF tick.cli_event_rx # <<>>
       THEN LET item == Head(tick.cli_event_rx)
                t == HandleEvent(tick, item.value)
            IN tick' = [t EXCEPT !.cli_event_rx = Tail(@),
                                 !.handled.cli_event_rx = Append(@, item)]
       ELSE tick' = [tick EXCEPT !.pc = "drain"]
    /\ UNCHANGED NotTick

\* ui(), lines 251-254: the queue's commands become the tick's batch; with
\* `all` every one of them, else the first only.
DrainQueue(all) ==
    /\ tick.pc = "drain"
    /\ LET queue == tick.mcp_command_queue
           taken == IF all \/ queue = <<>> THEN queue ELSE <<Head(queue)>>
       IN tick' = [tick EXCEPT
                     !.pc = IF taken = <<>> THEN "tests" ELSE "mcp",
                     !.mcp_commands = taken,
                     !.mcp_command_queue = SubSeq(queue, Len(taken) + 1,
                                                  Len(queue))]
    /\ UNCHANGED NotTick

\* A drain that takes one command a tick.
DrainMcpCommands_first_only == DrainQueue(FALSE)

\* ui(), lines 251-254: queue.drain(..).collect() under the write lock.
DrainMcpCommands == DrainQueue(TRUE)

\* ui(), lines 256-258: the next command of the batch is handled.
HandleMcpCommand ==
    /\ tick.pc = "mcp"
    /\ LET item == Head(tick.mcp_commands)
           t == HandleTool(tick, item.value)
       IN tick' = [t EXCEPT
                     !.mcp_commands = Tail(@),
                     !.pc = IF Len(tick.mcp_commands) = 1 THEN "tests" ELSE @,
                     !.handled.mcp_command_queue = Append(@, item)]
    /\ UNCHANGED NotTick

\* ui(), lines 260-262: test_result_rx.try_iter() forwards the next event
\* of the self-test threads, or ends the loop and with it the tick's work
\* on its inputs (lines 264-275 draw the webview).
ForwardTestResults ==
    /\ tick.pc = "tests"
    /\ IF tick.test_result_rx # <<>>
       THEN tick' = [Send(tick, <<Head(tick.test_result_rx)>>) EXCEPT
                        !.test_result_rx = Tail(@)]
       ELSE tick' = [tick EXCEPT !.pc = "idle"]
    /\ UNCHANGED NotTick

\* The dispatcher's own steps.
UiStep ==
    \/ UiBegins
    \/ HandleFrontendCommand
    \/ TryIterCliEvents
    \/ DrainMcpCommands
    \/ HandleMcpCommand
    \/ ForwardTestResults

(***************************************************************************)
(* The specifications.                                                     *)
(***************************************************************************)

\* The history alone: no tool call task runs and no agent process is
\* launched.
Init == HInit /\ BInit({}) /\ CInit({}) /\ DInit /\ FInit /\ SInit /\ TInit

Next ==
    \/ Push
    \/ Undo
    \/ Redo
    \/ Clear

Spec == Init /\ [][Next]_vars

\* The bridge with NumProducers concurrent tool call tasks, each call's
\* polling loop cut to PollBudget rounds.
Producers == 1..NumProducers

BridgeInit == HInit /\ BInit(Producers) /\ CInit({}) /\ DInit /\ FInit /\ SInit /\ TInit

BridgeNext ==
    \/ \E p \in Producers : Enqueue(p)
    \/ \E p \in Producers : SleepElapsed(p)
    \/ \E p \in Producers : Check(p, PollBudget)
    \/ UserClick
    \/ TickBegin
    \/ UserInputResponse
    \/ DrainCommands
    \/ handle_mcp_command

BridgeSpec == BridgeInit /\ [][BridgeNext]_vars

\* One tool call task whose polling loop runs all max_attempts rounds.  The
\* runtime resumes a task whose sleep has elapsed, and the slot's lock is
\* held only for a store or a take, so a task's steps are weakly fair.
TimeoutProducer == "task"

TimeoutInit == HInit /\ BInit({TimeoutProducer}) /\ CInit({}) /\ DInit /\ FInit /\ SInit /\ TInit

TimeoutNext ==
    \/ Len(enqueued) < MaxTimeoutCalls /\ Enqueue(TimeoutProducer)
    \/ SleepElapsed(TimeoutProducer)
    \/ Check(TimeoutProducer, max_attempts)
    \/ UserClick
    \/ TickBegin
    \/ UserInputResponse
    \/ DrainCommands
    \/ handle_mcp_command

TimeoutSpec ==
    /\ TimeoutInit
    /\ [][TimeoutNext]_vars
    /\ WF_vars(SleepElapsed(TimeoutProducer))
    /\ WF_vars(Check(TimeoutProducer, max_attempts))

\* Serialized tool calls: the one task makes up to MaxCommands calls, each
\* after the one before it has returned; a call gives up after PollBudget
\* rounds, as a call of max_attempts rounds does after ten seconds when
\* the dispatcher or the user is slower than that.
SerialNext ==
    \/ Enqueue(TimeoutProducer)
    \/ SleepElapsed(TimeoutProducer)
    \/ Check(TimeoutProducer, PollBudget)
    \/ UserClick
    \/ TickBegin
    \/ UserInputResponse
    \/ DrainCommands
    \/ handle_mcp_command

SerialSpec == TimeoutInit /\ [][SerialNext]_vars

\* The agent process session: the dispatcher, the worker, the processes
\* and their readers.  A behaviour launches at most MaxCliCommands processes.
CliInit == HInit /\ BInit({}) /\ CInit(ChildIds) /\ DInit /\ FInit /\ SInit /\ TInit

CliNext ==
    \/ SendPrompt
    \/ CancelRequest
    \/ WorkerRecv
    \/ WorkerKill
    \/ WorkerWait
    \/ SpawnOk
    \/ SpawnErr
    \/ WorkerEmit
    \/ \E c \in ChildIds : ProcessWrites(c)
    \/ \E c \in ChildIds : ProcessExits(c)
    \/ \E c \in ChildIds : ReaderRead(c)
    \/ \E c \in ChildIds : ReaderSend(c)
    \/ \E c \in ChildIds : ReaderEnd(c)
    \/ HandleCliEvent

CliSpec == CliInit /\ [][CliNext]_vars

\* The decoder: one reader fed up to MaxDecoderLines lines.
DecoderNext ==
    \/ DecodeLine
    \/ DecodeEnd

DecoderSpec == Init /\ [][DecoderNext]_vars

\* The frontend's tool calls: one reader fed up to MaxToolLines lines, and
\* the frontend that receives its events.
ToolUseNext ==
    \/ ToolStreamLine
    \/ ForwardCliEvent

ToolUseSpec == Init /\ [][ToolUseNext]_vars

\* The game tools: the dispatcher handles up to MaxGameCommands tool
\* commands, one after the other.
GameNext == GameCommand

GameSpec == Init /\ [][GameNext]_vars

\* The play state: the dispatcher handles up to MaxGameCommands tool
\* commands, the frontend's play commands between them, and the frames'
\* close detection.
PlayNext ==
    \/ GameCommandOf(PlayToolCommands)
    \/ PlayGame
    \/ PauseGame
    \/ StopGame
    \/ DetectWindowCloses

PlaySpec == Init /\ [][PlayNext]_vars

\* The tick: one dispatcher, up to MaxTickItems items arriving at its
\* inputs at any point, and the self-test threads it starts.
TickNext ==
    \/ FrontendSends
    \/ WorkerSends
    \/ ToolCallPushes
    \/ TestThreadRuns
    \/ UiBegins
    \/ HandleFrontendCommand
    \/ TryIterCliEvents
    \/ DrainMcpCommands
    \/ HandleMcpCommand
    \/ ForwardTestResults

TickSpec == Init /\ [][TickNext]_vars

(***************************************************************************)
(* Properties of OperationHistory.                                         *)
(***************************************************************************)

\* C1: right after push(op) the redo stack is empty, and a redo() made
\* next returns None and leaves the cursor where the push put it.
C1_PushClearsRedoStack ==
    /\ hlast.op = "push" =>
          /\ redo_stack = <<>>
          /\ redo(History).ret = NoOperation
          /\ redo(History).h.current = current
    /\ (hlast.op = "redo" /\ hlast.prevop = "push") =>
          /\ hlast.ret = NoOperation
          /\ current = hlast.pre.current

\* C1 witness: a push made while the redo stack held an undone node.
C1_Witness ==
    /\ hlast.op = "push"
    /\ hlast.pre.redo_stack # <<>>

\* C2: when the cursor is set, undo() followed at once by redo() puts the
\* cursor and the redo stack back to what they were before the undo, and
\* both calls return the operation stored at the pre-undo cursor node.
C2_UndoThenRedoRestores ==
    [][(hlast.op = "undo" /\ hlast.pre.current # None /\ hlast'.op = "redo") =>
          /\ current' = hlast.pre.current
          /\ redo_stack' = hlast.pre.redo_stack
          /\ hlast'.ret = hlast.ret
          /\ hlast.ret = NodeAt(hlast.pre, hlast.pre.current).operation]_vars

\* C2 witness: a redo made right after an undo, with an older undone node
\* still on the redo stack.
C2_Witness ==
    /\ hlast.op = "redo"
    /\ hlast.prevop = "undo"
    /\ hlast.ret # NoOperation
    /\ redo_stack # <<>>

\* C3: push(op) allocates exactly one node, at index len(nodes), holding op,
\* with the pre-push cursor as parent; the parent (if any) gets the new index
\* appended to its children; the cursor is the new node; every other node is
\* unchanged.
C3_PushAllocatesOneNode ==
    hlast.op = "push" =>
        LET pre == hlast.pre
            index == Len(pre.nodes)
        IN /\ Len(nodes) = index + 1
           /\ nodes[index + 1].operation = hlast.arg
           /\ nodes[index + 1].parent = pre.current
           /\ current = index
           /\ \A i \in 0..(index - 1) :
                 IF i = pre.current
                 THEN /\ nodes[i + 1].operation = pre.nodes[i + 1].operation
                      /\ nodes[i + 1].parent = pre.nodes[i + 1].parent
                      /\ nodes[i + 1].children =
                            Append(pre.nodes[i + 1].children, index)
                 ELSE nodes[i + 1] = pre.nodes[i + 1]

\* C3 witness: a push under a parent that already had a child (a branch).
C3_Witness ==
    /\ hlast.op = "push"
    /\ hlast.pre.current # None
    /\ NodeAt(hlast.pre, hlast.pre.current).children # <<>>

\* C4: with the cursor set, undo() returns the cursor node's operation,
\* pushes the cursor on top of the redo stack and moves the cursor to the
\* node's parent (None for a root); with the cursor unset it returns None.
C4_UndoMovesToParent ==
    hlast.op = "undo" =>
        LET pre == hlast.pre
        IN IF pre.current # None
           THEN /\ hlast.ret = NodeAt(pre, pre.current).operation
                /\ redo_stack = Append(pre.redo_stack, pre.current)
                /\ current = NodeAt(pre, pre.current).parent
           ELSE hlast.ret = NoOperation

\* C4 witness: an undo of a node whose parent is not the previous index.
C4_Witness ==
    /\ hlast.op = "undo"
    /\ hlast.pre.current # None
    /\ hlast.pre.redo_stack # <<>>
    /\ current # hlast.pre.current - 1

\* C5: from an empty history, N pushes and then N undos leave the cursor
\* unset, the i-th undo returns the (N+1-i)-th pushed operation, and undo
\* number N+1 returns None.
C5_PushesThenUndosEmptyCursor ==
    run.phase # "other" =>
        LET N == Len(run.pushed)
            k == Len(run.returned)
        IN /\ \A i \in 1..k :
                 IF i <= N
                 THEN run.returned[i] = run.pushed[N + 1 - i]
                 ELSE run.returned[i] = NoOperation
           /\ (run.phase = "undoing" /\ k >= N) => current = None
           /\ N = 0 => current = None

\* C5 witness: MaxNodes - 1 pushes, not all of one operation, then one undo
\* more than there were pushes.
C5_Witness ==
    /\ run.phase = "undoing"
    /\ Len(run.pushed) = MaxNodes - 1
    /\ Len(run.returned) = MaxNodes
    /\ run.pushed[1] # run.pushed[2]

(***************************************************************************)
(* Properties of the command bridge.                                       *)
(***************************************************************************)

\* The step in which task p makes the first check of its call.
FirstPoll(p) ==
    /\ task[p].pc = "check"
    /\ task[p].checks = 0
    /\ task'[p].pc # "check"

\* The step in which the call for command c returns.
Returns(c) == results[c] = NoReturn /\ results'[c] # NoReturn

\* C6 as stated: every response stored after a call's enqueue and before
\* its first poll is what that first poll returns, and the slot keeps a
\* value until a poll takes it.
C6_StoredBeforeFirstPollIsReturned ==
    [][/\ \A p \in DOMAIN task :
             FirstPoll(p) =>
                \A m \in task[p].early : results'[task[p].cmd] = m
       /\ (response_queue # NoResponse /\ response_queue' # response_queue) =>
             /\ response_queue' = NoResponse
             /\ \E c \in 1..MaxCommands :
                   Returns(c) /\ results'[c] = response_queue.message]_vars

\* C6 as amended: a response that is in the slot at a call's first poll is
\* returned by that poll; a response stored after the enqueue and before
\* the first poll is in the slot then unless another call's poll has taken
\* it or a later store has overwritten it; the slot keeps a value until a
\* poll takes it or a store overwrites it.
C6_FirstPollReturnsSlot ==
    [][/\ \A p \in DOMAIN task :
             FirstPoll(p) =>
                /\ response_queue # NoResponse =>
                      /\ results'[task[p].cmd] = response_queue.message
                      /\ task'[p].pc = "idle"
                      /\ response_queue' = NoResponse
                /\ \A m \in task[p].early :
                      \/ m = response_queue.message
                      \/ m \in lost
                      \/ \E c \in 1..MaxCommands : results[c] = m
       /\ (response_queue # NoResponse /\ response_queue' # response_queue) =>
             \/ /\ response_queue' = NoResponse
                /\ \E c \in 1..MaxCommands :
                      Returns(c) /\ results'[c] = response_queue.message
             \/ /\ response_queue' # NoResponse
                /\ response_queue.message \in lost']_vars

\* C6 witness: a first poll has returned a response that was stored after
\* its call's enqueue.
C6_Witness == first_hit

C8_QueueIsFifoAndLossFree ==
    /\ [](/\ drained \o Ids(command_queue) = enqueued
          /\ \A i, j \in 1..Len(drained) : drained[i] = drained[j] => i = j
          /\ Ids(ui.mcp_commands) =
                SubSeq(drained, Len(drained) - Len(ui.mcp_commands) + 1,
                       Len(drained)))
    /\ [][(ui.pc = "commands" /\ ui'.pc = "mcp") =>
             /\ ui'.mcp_commands = command_queue
             /\ command_queue' = <<>>]_vars

\* C8 witness: one drain has returned the commands of two tasks.
C8_Witness ==
    /\ ui.k >= 2
    /\ \E p, q \in DOMAIN task :
          /\ p # q
          /\ task[p].pc # "idle"
          /\ task[q].pc # "idle"

\* C9: the handler of a command stores at most one response, a call
\* returns at most once, no two calls return the same stored response, and
\* a response a call has returned is no longer in the slot.
C9_AtMostOneResponsePerCommand ==
    /\ \A c \in 1..MaxCommands :
          /\ counts[c].stores <= 1
          /\ counts[c].returns <= 1
          /\ response_queue # NoResponse => results[c] # response_queue.message
    /\ \A c, d \in 1..MaxCommands :
          (c # d /\ results[c] = results[d]) => results[c] \in {NoReturn, Timeout}

\* C9 witness: two calls have each returned a response.
C9_Witness ==
    \E c, d \in 1..MaxCommands :
       /\ c # d
       /\ results[c] \notin {NoReturn, Timeout}
       /\ results[d] \notin {NoReturn, Timeout}

\* Last-write-wins: a response overwritten before a poll took it is neither
\* in the slot nor ever returned.
LastWriteWins ==
    /\ response_queue # NoResponse => response_queue.message \notin lost
    /\ \A c \in 1..MaxCommands : results[c] \notin lost

\* C10 as stated: last-write-wins, and after a tick that drained more than
\* one command the slot holds no response but the one to the command
\* handled last.
C10_OnlyLastHandledRemains ==
    /\ LastWriteWins
    /\ (TickOver /\ ui.k > 1 /\ response_queue # NoResponse) =>
          response_queue.message = Message("handler", drained[Len(drained)])

\* C10 as amended: last-write-wins, and after a tick that drained more than
\* one command and stored a response the slot holds no response but the one
\* to the last handled command whose handler stores one (RequestUserInput
\* stores none).
C10_OnlyLastStoredRemains ==
    /\ LastWriteWins
    /\ (TickOver /\ ui.k > 1 /\ ui.answered # 0 /\ response_queue # NoResponse) =>
          response_queue.message = Message("handler", ui.answered)

\* C10 witness: a tick that drained two commands has overwritten the first
\* one's response with the second one's.
C10_Witness ==
    /\ TickOver
    /\ ui.k > 1
    /\ response_queue = McpResponse("Success", Message("handler", ui.answered))
    /\ \E c \in 1..MaxCommands : c # ui.answered /\ Message("handler", c) \in lost

(***************************************************************************)
(* Properties of the agent process session.                                *)
(***************************************************************************)

\* The last element of a non-empty sequence.
Last(s) == s[Len(s)]

\* The events of process c's reader that wait in the channel, in order.
FromReader(c) ==
    SelectSeq(cli_event_rx, LAMBDA m : m.by = "reader" /\ m.child = c)

\* The step in which the reader of process c sends an event.
ReaderSends(c) == reader'[c].sent = reader[c].sent + 1

\* The session is Running: the worker holds a child handle.
Running == worker.current_child # None

\* C11: at most one launched process has not exited; it is the one the
\* worker holds or is killing; when the worker launches a process, every
\* process launched before has exited.
C11_AtMostOneLiveChild ==
    /\ Cardinality({c \in ChildIds : Live(c)}) <= 1
    /\ \A c \in ChildIds :
          Live(c) => \/ worker.current_child = c
                     \/ worker.child = c /\ worker.pc \in {"kill", "wait"}
    /\ worker.pc = "spawn" => \A c \in ChildIds : ~Live(c)

\* C11 witness: a StartQuery took the handle of one process, which has
\* exited, and launched another, which runs.
C11_Witness ==
    \E c, d \in ChildIds :
       /\ c # d
       /\ worker.cmd = "StartQuery"
       /\ worker.child = c
       /\ children[c].status = "exited"
       /\ worker.current_child = d
       /\ children[d].status = "running"

\* C12 as stated: the reader of a process that was killed and waited for
\* sends no event once the worker has accepted the next command, and none
\* after an event of a process launched later.
C12_NoOldOutputAfterNextCommand ==
    [][\A c \in ChildIds :
          ReaderSends(c) =>
             /\ c \notin retired
             /\ \A d \in ChildIds : d > c => reader[d].sent = 0]_vars

\* C13 as stated: the Cancel arm, having taken a child, has waited for its
\* exit and sends exactly one TurnComplete, with the session id the
\* process's reader last decoded from a system line and announced (the
\* reader holds no event it has yet to send).
C13_CancelEmitsLastSessionId ==
    [][(/\ worker.pc = "emit" /\ worker'.pc = "recv"
        /\ worker.child # None
        /\ reader[worker.child].events = <<>>) =>
          /\ children[worker.child].status = "exited"
          /\ Len(cli_event_rx') = Len(cli_event_rx) + 1
          /\ SubSeq(cli_event_rx', 1, Len(cli_event_rx)) = cli_event_rx
          /\ Last(cli_event_rx').cli_event =
                TurnComplete(reader[worker.child].session_id)]_vars

\* C14: a launch that fails sends exactly one Error event, leaves the
\* worker without a child handle, starts no process and no reader, and
\* takes the worker back to its loop, where it receives the next command.
C14_FailedLaunchSendsOneError ==
    [][(worker.pc = "spawn" /\ worker' # worker /\ worker'.outcome = "err") =>
          /\ cli_event_rx' = Append(cli_event_rx, SpawnError)
          /\ worker'.current_child = None
          /\ children' = children
          /\ reader' = reader
          /\ worker'.pc = "recv"
          /\ cli_cmd_rx' = cli_cmd_rx]_vars

\* C14 witness: the Error of a failed launch is in the channel and a later
\* StartQuery has launched a process.
C14_Witness ==
    /\ \E i \in 1..Len(cli_event_rx) : cli_event_rx[i] = SpawnError
    /\ worker.outcome = "ok"
    /\ worker.current_child # None

\* C15: the events decoded from one process's stdout are numbered in source
\* order; those the dispatcher has not handled wait in that order, each
\* once, in the channel and then in the reader; the dispatcher handles them
\* in that order, none missing.
C15_EventsHandledInSourceOrder ==
    /\ [](\A c \in ChildIds :
             LET q == FromReader(c) \o reader[c].events
             IN /\ \A i \in 1..Len(q) : q[i].n = cli_ui.handled[c] + i
                /\ reader[c].decoded = cli_ui.handled[c] + Len(q)
                /\ reader[c].sent = cli_ui.handled[c] + Len(FromReader(c)))
    /\ [][(cli_event_rx # <<>> /\ cli_ui' # cli_ui
             /\ cli_ui'.sent = cli_ui.sent) =>
             LET m == Head(cli_event_rx)
             IN /\ m.by = "reader"
                /\ m.n = cli_ui.handled[m.child] + 1
                /\ cli_ui'.handled =
                      [cli_ui.handled EXCEPT ![m.child] = m.n]]_vars

\* C15 witness: the dispatcher has handled two events of one process.
C15_Witness == \E c \in ChildIds : cli_ui.handled[c] >= 2

\* C16: the end of a reader sends nothing; a Complete in the channel was
\* decoded from a result line; a reader that has ended holds no event; a
\* Complete, Error or TurnComplete is sent only by a reader for a result
\* or message_stop line it decoded, by the Cancel arm or by a failed launch.
C16_ClosureSendsNothing ==
    /\ [](/\ \A i \in 1..Len(cli_event_rx) :
                cli_event_rx[i].cli_event.event = "Complete" =>
                   /\ cli_event_rx[i].by = "reader"
                   /\ cli_event_rx[i].line = ResultLine
          /\ \A c \in ChildIds :
                reader[c].pc = "done" => reader[c].events = <<>>)
    /\ [][/\ \A c \in ChildIds :
                (reader[c].pc = "read" /\ reader'[c].pc = "done") =>
                   cli_event_rx' = cli_event_rx
          /\ (Len(cli_event_rx') > Len(cli_event_rx)
                /\ Last(cli_event_rx').cli_event.event
                      \in {"Complete", "Error", "TurnComplete"}) =>
                LET m == Last(cli_event_rx')
                IN \/ /\ m.by = "reader"
                      /\ reader[m.child].pc = "send"
                      /\ m.line \in {ResultLine, MessageStop}
                   \/ /\ m.by = "worker"
                      /\ worker.pc = "emit"
                      /\ worker.cmd = "Cancel"
                   \/ /\ m.by = "worker"
                      /\ worker.pc = "spawn"
                      /\ m.cli_event.event = "Error"]_vars

\* C16 witness: a process has exited without a result line, its reader has
\* ended, and the worker still holds it: the session stalls.
C16_Witness ==
    \E c \in ChildIds :
       /\ children[c].status = "exited"
       /\ children[c].stdout = <<>>
       /\ children[c].written > 0
       /\ reader[c].pc = "done"
       /\ c \notin completed
       /\ worker.current_child = c
       /\ cli_event_rx = <<>>

\* C17 as stated: the session becomes Running by a successful launch only
\* and leaves Running when the worker takes the handle for a Cancel or a
\* superseding StartQuery; a command the worker accepts once the Complete
\* event of a process has been sent finds no child of that process to kill.
C17_IdleAfterComplete ==
    [][/\ (~Running /\ Running') =>
             worker.pc = "spawn" /\ worker'.outcome = "ok"
       /\ (Running /\ ~Running') => worker.pc = "recv"
       /\ (worker.pc = "recv" /\ worker'.pc = "kill") =>
             worker'.child \notin completed]_vars

(***************************************************************************)
(* Properties of the stream decoder.                                       *)
(***************************************************************************)

\* The content_block_start lines of type tool_use.
ToolUseStarts == {ToolUseStart("X"), ToolUseStart("Y"), ToolUseStartNoId}

\* Whether none of the lines strictly between i and j is in S.
NoneBetween(lines, i, j, S) == \A k \in (i + 1)..(j - 1) : lines[k] \notin S

\* What C18 asks of line j after the tool_use start of id X.
AttributedTo(X, j) ==
    /\ decoder.lines[j] = InputJsonDelta =>
          decoder.out[j] = <<ToolUseInputDelta(X, "{\"a\":")>>
    /\ decoder.lines[j] = BlockStop =>
          /\ decoder.out[j] = <<ToolUseFinished(X)>>
          /\ j = Len(decoder.lines) => decoder.current_tool_id = ""

RECURSIVE LastSessionId(_, _)
LastSessionId(lines, k) ==
    IF k = 0 THEN ""
    ELSE IF lines[k] \in {SystemLine("s1"), SystemLine("s2")}
         THEN lines[k].value.session_id
         ELSE LastSessionId(lines, k - 1)

\* The concatenation of a sequence of sequences.
RECURSIVE Flatten(_)
Flatten(ss) == IF ss = <<>> THEN <<>> ELSE Head(ss) \o Flatten(Tail(ss))

\* C19: a system line with a session id emits SessionStarted with it and
\* stores it over the earlier one; message_stop and result lines emit
\* TurnComplete and Complete with the id stored last, empty if none; the
\* events come out in line order, as in system(s1), text_delta(hi), result.
C19_SessionIdCarriedForward ==
    /\ \A j \in 1..Len(decoder.lines) :
          LET line == decoder.lines[j]
              sid == LastSessionId(decoder.lines, j - 1)
          IN /\ \A s \in {"s1", "s2"} :
                   line = SystemLine(s) => decoder.out[j] = <<SessionStarted(s)>>
             /\ line = MessageStop => decoder.out[j] = <<TurnComplete(sid)>>
             /\ line = ResultLine => decoder.out[j] = <<Complete(sid, 2, 1)>>
             /\ line = JsonLine([type |-> "result"]) =>
                   decoder.out[j] = <<Complete(sid, None, 0)>>
    /\ decoder.session_id = LastSessionId(decoder.lines, Len(decoder.lines))
    /\ decoder.events = Flatten(decoder.out)
    /\ decoder.lines = <<SystemLine("s1"), TextDeltaLine, ResultLine>> =>
          decoder.events = <<SessionStarted("s1"), TextDelta("hi"),
                             Complete("s1", 2, 1)>>

\* C19 witness: system(s1), text_delta(hi) and result have been decoded.
C19_Witness ==
    /\ decoder.lines = <<SystemLine("s1"), TextDeltaLine, ResultLine>>
    /\ Len(decoder.events) = 3

EventLine(j) ==
    CHOOSE i \in 1..Len(decoder.out) :
       /\ Len(Flatten(SubSeq(decoder.out, 1, i - 1))) < j
       /\ j <= Len(Flatten(SubSeq(decoder.out, 1, i)))

\* The tool_use start whose tool call line i belongs to: the start before
\* line i with nothing but input fragments between the two; 0 when line i
\* is in no tool call.
OpenStart(i) ==
    LET starts == {s \in 1..(i - 1) :
                      /\ decoder.lines[s] \in ToolUseStarts
                      /\ \A k \in (s + 1)..(i - 1) :
                            decoder.lines[k] \in FragmentLines}
    IN IF starts = {} THEN 0 ELSE CHOOSE s \in starts : TRUE

\* f_a ++ ... ++ f_b: the fragments of the lines a..b, in arrival order.
RECURSIVE Joined(_, _, _)
Joined(lines, a, b) ==
    IF a > b THEN ""
    ELSE lines[a].value.event.delta.partial_json \o Joined(lines, a + 1, b)

\* C21: when the frontend receives an event of a tool call (a tool_use
\* start, then input fragments only, then the content_block_stop), the
\* event goes to the tool call started last and to no other: after a
\* fragment its input is the concatenation of the fragments so far, and
\* when ToolUseFinished is observed it is f1 ++ ... ++ fn and the tool call
\* is finished.
C21_FragmentsRoundTrip ==
    [][frontend'.seen = frontend.seen + 1 =>
         LET i == EventLine(frontend'.seen)
             s == OpenStart(i)
             line == decoder.lines[i]
             tools == frontend.active_tools
             after == frontend'.active_tools
         IN (s # 0 /\ line \in FragmentLines \cup {BlockStop}) =>
               /\ Len(tools) >= 1
               /\ Len(after) = Len(tools)
               /\ \A k \in 1..(Len(tools) - 1) : after[k] = tools[k]
               /\ line \in FragmentLines =>
                     /\ Last(after).input_json = Joined(decoder.lines, s + 1, i)
                     /\ Last(after).finished = Last(tools).finished
               /\ line = BlockStop =>
                     /\ Last(after).input_json =
                           Joined(decoder.lines, s + 1, i - 1)
                     /\ Last(after).finished]_vars

\* C21 witness: the frontend has observed ToolUseFinished for a tool call
\* of two fragments and holds their concatenation.
C21_Witness ==
    /\ decoder.lines = <<ToolUseStart("X"), Fragment("{\"a\":"), Fragment("1}"),
                         BlockStop>>
    /\ frontend.seen = 4
    /\ frontend.active_tools =
          <<[tool_name |-> "create_game", tool_id |-> "X",
             input_json |-> "{\"a\":1}", finished |-> TRUE]>>

(***************************************************************************)
(* Properties of the game tools.                                           *)
(***************************************************************************)

\* A step in which the dispatcher handles a tool command of kind `kind`.
Handles(kind) ==
    scene'.handled = scene.handled + 1 /\ scene'.last.kind = kind

\* The step leaves the scene and the game state as they were.
SameGame == [scene' EXCEPT !.handled = scene.handled, !.last = scene.last] = scene

\* C22: an Undo command with an unset cursor answers "Nothing to undo" and
\* a Redo command with an empty redo stack answers "Nothing to redo"; both
\* leave the history, the scene and the game state as they were, and the
\* answer is stored in the response slot.
C22_UnderflowIsBenign ==
    [][/\ (Handles("Undo") /\ current = None) =>
             /\ response_queue' = McpResponse("Success", "Nothing to undo")
             /\ History' = History
             /\ SameGame
       /\ (Handles("Redo") /\ redo_stack = <<>>) =>
             /\ response_queue' = McpResponse("Success", "Nothing to redo")
             /\ History' = History
             /\ SameGame]_vars

\* C22 witness: an Undo has been answered "Nothing to undo" in a history
\* that has a node, for a scene that has a game.
C22_Witness ==
    /\ scene.last.kind = "Undo"
    /\ response_queue = McpResponse("Success", "Nothing to undo")
    /\ nodes # <<>>
    /\ current = None
    /\ scene.game_definition.some

\* C23 as stated: clear() leaves the history empty, and after a create_game
\* or a reset_game that succeeds no node recorded before it remains: the
\* history holds the node of that command and nothing else.
C23_ReplacingGameClearsHistory ==
    /\ [](clear(History) = DefaultHistory)
    /\ [][((Handles("CreateGame") \/ Handles("ResetGame"))
             /\ scene'.last.recorded) =>
                /\ Len(nodes') = 1
                /\ current' = 0
                /\ redo_stack' = <<>>]_vars

\* C24 as stated: a tool operation that was recorded and then an Undo, with
\* nothing in between and the engine spawning what it is asked to, leave
\* the set of game entity names and the game state as they were before
\* the operation.
C24_UndoRestoresNamesAndState ==
    [][(Handles("Undo") /\ scene.last.recorded /\ scene'.last.spawns) =>
          /\ DOMAIN scene'.game_entities = scene.last.names
          /\ scene'.game_state = scene.last.game_state]_vars

\* The entries of the snapshot of the history the state holds.
Entries == to_json(History).operations

\* C25: the snapshot lists every node of the history, abandoned branches
\* included, in index order; an entry's current flag is set iff it is the
\* cursor, so at most one entry is current; its can_redo flag is set iff
\* its index is in the redo stack; can_undo is set iff the cursor is set
\* and can_redo iff the redo stack is non-empty; total_operations is the
\* number of pushes since the last clear: a create_game that succeeds
\* leaves 1, any other command that records an operation adds 1 and every
\* other command leaves the count as it was.
C25_SnapshotAgreesWithHistory ==
    /\ [](/\ Len(Entries) = Len(nodes)
          /\ \A i \in 1..Len(nodes) :
                /\ Entries[i].id = i - 1
                /\ Entries[i].current = (current = i - 1)
                /\ Entries[i].can_redo =
                      (\E k \in 1..Len(redo_stack) : redo_stack[k] = i - 1)
          /\ Cardinality({i \in 1..Len(nodes) : Entries[i].current}) <= 1
          /\ to_json(History).can_undo = (current # None)
          /\ to_json(History).can_redo = (redo_stack # <<>>)
          /\ to_json(History).total_operations = Len(nodes))
    /\ [][to_json(History').total_operations =
             IF Handles("CreateGame") /\ scene'.last.recorded
             THEN 1
             ELSE IF scene'.last.recorded
                  THEN to_json(History).total_operations + 1
                  ELSE to_json(History).total_operations]_vars

\* C25 witness: the snapshot lists a node of an abandoned branch (neither
\* the cursor nor redoable, and not the cursor's parent) beside the cursor.
C25_Witness ==
    \E i, j \in 1..Len(Entries) :
        /\ Entries[j].current
        /\ ~Entries[i].current
        /\ ~Entries[i].can_redo
        /\ "children" \notin DOMAIN Entries[i]
        /\ "parent" \notin DOMAIN Entries[j]

\* The tool commands whose results the "Error: " convention is stated for.
PrefixedKinds ==
    {"CreateGame", "AddGameEntity", "RemoveGameEntity", "UpdateEntityScript",
     "ResetGame", "ExportScene", "SpawnEntity", "MoveEntity", "RotateEntity",
     "ScaleEntity", "RemoveEntity", "SetCamera"}

\* C28 as stated: the result stored for one of these tool commands starts
\* with "Error: " when the command failed and does not when it succeeded.
C28_FailureHasErrorPrefix ==
    [][(\E kind \in PrefixedKinds : Handles(kind)) =>
          (scene'.last.failed <=>
              StartsWith(response_queue'.message, "Error: "))]_vars

\* The tool commands that change the game and record an operation.
MutatingKinds ==
    {"CreateGame", "AddGameEntity", "RemoveGameEntity", "UpdateEntityScript",
     "SetGameState", "ResetGame"}

\* C34: a mutating tool command that fails leaves the nodes, the cursor
\* and the redo stack as they were, and the history changes only when the
\* command succeeded and recorded its operation, which is then the node
\* under the cursor.
C34_FailedCommandKeepsHistory ==
    [][(\E kind \in MutatingKinds : Handles(kind)) =>
          /\ scene'.last.failed => History' = History
          /\ History' # History =>
                /\ ~scene'.last.failed
                /\ scene'.last.recorded
                /\ current' = Len(nodes') - 1]_vars

\* C34 witness: an update_entity_script, remove_game_entity or
\* add_game_entity has failed in a game whose history has a node.
C34_Witness ==
    /\ scene.last.failed
    /\ scene.last.kind \in {"UpdateEntityScript", "RemoveGameEntity",
                            "AddGameEntity"}
    /\ scene.game_definition.some
    /\ nodes # <<>>

\* The keys and values set in the round trip.
RoundTripKeys == {"score", "lives"}

RoundTripValues == {1, 2}

\* C35: from any state the game tools reach, set_game_state(k, v) and
\* then Undo leave the game-state map as it was before the set (k with
\* its previous value, or without k), and a Redo after them leaves the map
\* the set had made, in which k maps to v and every other key is as it
\* was; and an Undo the dispatcher handles right after a set_game_state
\* restores the map the set had found.
C35_SetGameStateRoundTrip ==
    /\ [](\A k \in RoundTripKeys, v \in RoundTripValues, spawns \in BOOLEAN :
            LET set == handle_set_game_state(scene, History, k, v)
                undone == handle_undo(set.scene, set.h, spawns)
                redone == handle_redo(undone.scene, undone.h, spawns)
            IN /\ undone.scene.game_state = scene.game_state
               /\ redone.scene.game_state = set.scene.game_state
               /\ redone.scene.game_state[k] = v
               /\ \A other \in DOMAIN scene.game_state \ {k} :
                     /\ set.scene.game_state[other] = scene.game_state[other]
                     /\ redone.scene.game_state[other] = scene.game_state[other]
               /\ DOMAIN redone.scene.game_state = DOMAIN scene.game_state \cup {k})
    /\ [][(Handles("Undo") /\ scene.last.kind = "SetGameState") =>
             scene'.game_state = scene.last.game_state]_vars

\* C35 witness: set_game_state("score", 2), Undo and Redo have been
\* handled in that order from a state without the key: the Redo found the
\* map without it, as the Undo had left it, and set it to 2 again.
C35_Witness ==
    /\ scene.last.kind = "Redo"
    /\ "score" \notin DOMAIN scene.last.game_state
    /\ "score" \in DOMAIN scene.game_state
    /\ scene.game_state["score"] = 2
    /\ Len(nodes) = 1
    /\ current = 0
    /\ NodeAt(History, current).operation.kind = "SetGameState"

(***************************************************************************)
(* Further properties of the history                                       *)
(***************************************************************************)

\* C26: undo and redo change only the cursor and the redo stack: the node
\* list (the number of nodes and each node's operation, parent and
\* children) is the same before and after the call, and nothing outside
\* the history changes.
C26_UndoRedoKeepNodes ==
    /\ [](/\ undo(History).h.nodes = nodes
          /\ redo(History).h.nodes = nodes)
    /\ [][hlast'.op \in {"undo", "redo"} =>
             /\ nodes' = nodes
             /\ UNCHANGED NotHistory]_vars

\* C26 witness: a redo and then an undo have been called, the undo moving
\* the cursor off a node that has a parent, and the nodes are as before.
C26_Witness ==
    /\ hlast.op = "undo"
    /\ hlast.prevop = "redo"
    /\ hlast.pre.current # None
    /\ NodeAt(hlast.pre, hlast.pre.current).parent # None
    /\ nodes = hlast.pre.nodes

\* The number of nodes on the current path: the node at `index` and its
\* ancestors.
RECURSIVE PathLength(_, _)
PathLength(h, index) ==
    IF index = None THEN 0 ELSE 1 + PathLength(h, NodeAt(h, index).parent)

\* k calls of undo() in a row: the history after them and the operations
\* returned, in the order of the calls.
RECURSIVE Undos(_, _)
Undos(h, k) ==
    IF k = 0
    THEN [h |-> h, rets |-> <<>>]
    ELSE LET first == undo(h)
             rest == Undos(first.h, k - 1)
         IN [h |-> rest.h, rets |-> <<first.ret>> \o rest.rets]

\* k calls of redo() in a row.
RECURSIVE Redos(_, _)
Redos(h, k) ==
    IF k = 0
    THEN [h |-> h, rets |-> <<>>]
    ELSE LET first == redo(h)
             rest == Redos(first.h, k - 1)
         IN [h |-> rest.h, rets |-> <<first.ret>> \o rest.rets]

\* C30: in a history with at least k nodes on the current path, k undos in
\* a row each return an operation, and k redos in a row after them return
\* the same operations in the reverse order and leave the nodes, the
\* cursor and the redo stack as they were before the first undo.
C30_RedoIsLastUndoneFirst ==
    \A k \in 0..PathLength(History, current) :
        LET undone == Undos(History, k)
            redone == Redos(undone.h, k)
        IN /\ Len(undone.rets) = k
           /\ \A i \in 1..k :
                 /\ undone.rets[i] # NoOperation
                 /\ redone.rets[i] = undone.rets[k + 1 - i]
           /\ redone.h = History

\* C30 witness: a redo has just returned an operation in a history whose
\* current path has three nodes that are not all the same operation, with
\* an older undone node still on the redo stack.
C30_Witness ==
    /\ hlast.op = "redo"
    /\ hlast.ret # NoOperation
    /\ PathLength(History, current) >= 3
    /\ redo_stack # <<>>
    /\ Undos(History, 3).rets[1] # Undos(History, 3).rets[3]

(***************************************************************************)
(* Properties of the dispatcher's tick                                     *)
(***************************************************************************)

\* s is the beginning of t.
IsPrefix(s, t) == Len(s) <= Len(t) /\ SubSeq(t, 1, Len(s)) = s

\* The items of s are in the order of their arrival.
InArrivalOrder(s) == \A i, j \in 1..Len(s) : i < j => s[i].id < s[j].id

\* The three queues of the dispatcher.
TickQueues == {"messages", "cli_event_rx", "mcp_command_queue"}

\* C27: when a tick is over, every frontend command, process event and
\* tool command that was queued when it began has been handled in it, the
\* items of each queue in the order of their arrival (the commands the
\* frontend had sent are exactly the ones handled; the events and the tool
\* commands handled begin with the ones that were queued); and at every
\* point of a tick the dispatcher has a step to take, whatever its inputs
\* hold.
C27_TickHandlesWhatItFound ==
    /\ tick.pc = "idle" =>
          /\ tick.handled.messages = tick.at_start.messages
          /\ \A q \in TickQueues : IsPrefix(tick.at_start[q], tick.handled[q])
    /\ \A q \in TickQueues : InArrivalOrder(tick.handled[q])
    /\ ENABLED UiStep

\* C27 witness: a tick is over that found items in all three queues.
C27_Witness ==
    /\ tick.pc = "idle"
    /\ \A q \in TickQueues : tick.at_start[q] # <<>>
    /\ \A q \in TickQueues : tick.handled[q] = tick.at_start[q]

\* The names handle_run_test knows (main.rs:1229-1339).
KnownTests ==
    {"ipc_echo", "mcp_round_trip", "show_notification", "display_content",
     "status_cycle", "cli_prompt"}

\* The dispatcher handles the RunTest command at the head of its batch,
\* and the command names no known self-test.
RunsUnknownTest ==
    /\ tick.pc = "commands"
    /\ Len(tick'.handled.messages) = Len(tick.handled.messages) + 1
    /\ Head(tick.commands).value.command = "RunTest"
    /\ Head(tick.commands).value.test_name \notin KnownTests

\* C29: handling a RunTest command whose name is not a known self-test
\* sends exactly one event, a TestResult with success = false, the name
\* given and a message that names it, and changes nothing else of the
\* dispatcher: no command goes to the worker, no thread is started, the
\* cli_prompt flag, the connected flag, the response slot and the inputs
\* are as they were.
C29_UnknownTestFailsOnce ==
    [][RunsUnknownTest =>
         LET test_name == Head(tick.commands).value.test_name
         IN /\ tick'.sent = Append(tick.sent,
                                   TestResult(test_name, FALSE,
                                              "Unknown test: " \o test_name))
            /\ [tick' EXCEPT !.sent = tick.sent,
                             !.pc = tick.pc,
                             !.commands = tick.commands,
                             !.handled = tick.handled] = tick]_vars

\* C29 witness: the failed result of the unknown test "warp_drive" is the
\* last event sent in a tick, while a cli_prompt self-test started
\* earlier is still running.
C29_Witness ==
    /\ tick.sent # <<>>
    /\ tick.sent[Len(tick.sent)] =
          TestResult("warp_drive", FALSE, "Unknown test: warp_drive")
    /\ tick.cli_prompt_test_running
    /\ tick.threads # <<>>

(***************************************************************************)
(* Further properties of the command bridge                                *)
(***************************************************************************)

C32_RedoStackIsParentChain ==
    LET n == Len(redo_stack)
    IN /\ n > 0 => NodeAt(History, redo_stack[n]).parent = current
       /\ \A i \in 1..n - 1 :
             NodeAt(History, redo_stack[i]).parent = redo_stack[i + 1]
       /\ \A i, j \in 1..n : i # j => redo_stack[i] # redo_stack[j]
       /\ \A i \in 1..n : redo_stack[i] # current

\* C32 witness: two undone nodes hang off a cursor that is set, in a
\* history that has a branch beside them.
C32_Witness ==
    /\ Len(redo_stack) >= 2
    /\ current # None
    /\ Len(NodeAt(History, current).children) >= 2

\* The indices of the nodes, and the option of one.
NodeIndices == 0..Len(nodes) - 1

\* How many times `child` is in the children list of the node `index`.
TimesChildOf(child, index) ==
    Cardinality({k \in 1..Len(NodeAt(History, index).children) :
                    NodeAt(History, index).children[k] = child})

\* C33: the history is a well-formed tree: the cursor, the redo stack's
\* entries, the parents and the children are indices of nodes (the cursor
\* and a parent may be None); a node's parent has a smaller index than the
\* node; a node with a parent is exactly once in its parent's children and
\* in no other node's; a root is in no children list; and every children
\* list is in increasing order.
C33_HistoryIsWellFormedTree ==
    /\ current \in NodeIndices \cup {None}
    /\ \A i \in 1..Len(redo_stack) : redo_stack[i] \in NodeIndices
    /\ \A index \in NodeIndices :
          LET node == NodeAt(History, index)
          IN /\ node.parent \in NodeIndices \cup {None}
             /\ node.parent < index
             /\ \A k \in 1..Len(node.children) :
                   node.children[k] \in NodeIndices
             /\ \A j, k \in 1..Len(node.children) :
                   j < k => node.children[j] < node.children[k]
             /\ \A other \in NodeIndices :
                   TimesChildOf(index, other) =
                      IF other = node.parent THEN 1 ELSE 0

\* C33 witness: a history of at least four nodes with two roots, a node
\* that has two children, undone nodes and a cursor that is set.
C33_Witness ==
    /\ Len(nodes) >= 4
    /\ Cardinality({i \in NodeIndices : NodeAt(History, i).parent = None}) >= 2
    /\ \E i \in NodeIndices : Len(NodeAt(History, i).children) >= 2
    /\ redo_stack # <<>>
    /\ current # None

(***************************************************************************)
(* Further properties of the agent process session                         *)
(***************************************************************************)

\* The last command the dispatcher sent to the worker: the last one still
\* in the channel, or else the one the worker received last.
LastCliCommand ==
    IF cli_cmd_rx # <<>> THEN cli_cmd_rx[Len(cli_cmd_rx)] ELSE worker.cmd

\* The dispatcher takes an event out of the channel and handles it.
HandlesCliEvent == Len(cli_event_rx') = Len(cli_event_rx) - 1

\* C36 as stated: once the dispatcher has handled a CancelRequest (Cancel
\* sent to the worker, StatusUpdate Idle to the frontend) and until it
\* handles the next SendPrompt, every StatusUpdate it sends for an event
\* it handles carries the status Idle.
C36_StatusStaysIdleAfterCancel ==
    [][(LastCliCommand = "Cancel" /\ HandlesCliEvent) =>
          LET sends == BackendEvents(Head(cli_event_rx).cli_event)
          IN \A i \in 1..Len(sends) :
                sends[i].event = "StatusUpdate" => sends[i].status = "Idle"]_vars

(***************************************************************************)
(* Further properties of the stream decoder                                *)
(***************************************************************************)

\* Event i of the stream closes a tool call that is open: the id is not
\* empty, and an earlier ToolUseStarted carries it with no ToolUseFinished
\* of that id in between.
ClosesOpenToolCall(events, i) ==
    /\ events[i].tool_id # ""
    /\ \E j \in 1..(i - 1) :
          /\ events[j].event = "ToolUseStarted"
          /\ events[j].tool_id = events[i].tool_id
          /\ \A k \in (j + 1)..(i - 1) :
                events[k].event = "ToolUseFinished"
                   => events[k].tool_id # events[i].tool_id

\* C37 as stated: in the events of one stdout stream every ToolUseFinished
\* closes a tool call that a ToolUseStarted of the same id opened and that
\* no ToolUseFinished has closed since, so none is sent while
\* current_tool_id is empty.
C37_ToolUseWellBracketed ==
    \A i \in 1..Len(decoder.events) :
        decoder.events[i].event = "ToolUseFinished"
           => ClosesOpenToolCall(decoder.events, i)

(***************************************************************************)
(* Further properties of the dispatcher's tick                             *)
(***************************************************************************)

\* The TestResults for cli_prompt that have been produced and not yet
\* discarded: those sent to the frontend in this tick and those waiting in
\* test_result_rx.
CliPromptReports(t) ==
    LET produced == t.sent \o t.test_result_rx
    IN Cardinality({i \in 1..Len(produced) :
                      /\ produced[i].event = "TestResult"
                      /\ produced[i].test_name = "cli_prompt"})

\* The step handles RunTest("cli_prompt"), which arms the flag.
ArmsCliPrompt ==
    /\ tick.pc = "commands"
    /\ Head(tick.commands).value = RunTest("cli_prompt")
    /\ Len(tick'.commands) = Len(tick.commands) - 1

\* C38: the Complete/Error handler and the timeout threads report a
\* cli_prompt TestResult only by claiming the flag: a step produces at
\* most one, finds the flag set and leaves it clear, and only handling
\* RunTest("cli_prompt") sets the flag; so an arming of the flag yields at
\* most one TestResult, whatever the interleaving and however many runs
\* overlap.
C38_OneReportPerArming ==
    [][/\ CliPromptReports(tick') > CliPromptReports(tick)
            => /\ CliPromptReports(tick') = CliPromptReports(tick) + 1
               /\ tick.cli_prompt_test_running
               /\ ~tick'.cli_prompt_test_running
       /\ (~tick.cli_prompt_test_running /\ tick'.cli_prompt_test_running)
            => ArmsCliPrompt]_vars

\* C38 witness: two overlapping runs of cli_prompt were started, the
\* Complete handler has claimed the flag and reported in this tick, and
\* both timeout threads have run since without reporting.
C38_Witness ==
    /\ Len(tick.cli_cmd_tx) = 2
    /\ \A i \in 1..2 :
          tick.cli_cmd_tx[i] = StartQuery("Say hello in exactly 3 words")
    /\ tick.threads = <<>>
    /\ tick.test_result_rx = <<>>
    /\ CliPromptReports(tick) = 1
    /\ ~tick.cli_prompt_test_running

(***************************************************************************)
(* Properties of the play state                                            *)
(***************************************************************************)

\* C39 as stated: in every state reachable through PlayGame, PauseGame,
\* StopGame, create_game, reset_game, Undo, Redo, teardown and the close
\* detection, play_state is Stopped if and only if play_window_title is
\* unset.
C39_StoppedIffNoPlayWindow ==
    scene.play_state = "Stopped" <=> ~scene.play_window_title.some

====
